---- MODULE Spec2Model ----
(***************************************************************************)
(* A model of the multi-precision integer library in                       *)
(* src/code/crypto/bignum.c.                                               *)
(*                                                                         *)
(* An MPI is a record [s, p]: s is the sign field (1 or -1) and p is the   *)
(* limb buffer, least significant limb first; the field n of the C struct  *)
(* is Len(p), and p = << >> is the state "p == NULL, n == 0".  Sequences   *)
(* are indexed from 1, so the C limb X->p[i] is X.p[i + 1].                *)
(*                                                                         *)
(* The limb type t_uint is taken as the one-byte limb (ciL = 1), the       *)
(* narrowest limb bignum.c can be built with; every operator is written in *)
(* terms of ciL, biL and biH exactly as the source is, and limb arithmetic *)
(* wraps modulo 2^biL.                                                     *)
(*                                                                         *)
(* memory_alloc is taken to succeed; the values computed are those of the  *)
(* paths on which every MPI_CHK passes or an operation reports one of its  *)
(* own error codes.                                                        *)
(***************************************************************************)
EXTENDS Integers, Sequences, FiniteSets, TLC

\* sizeof(t_uint): chars in limb
ciL == 1
\* bits in limb
biL == ciL * 8
\* half limb size
biH == ciL * 4

\* Number of values of a limb: t_uint arithmetic is modulo LimbBase.
LimbBase == 2 ^ biL

POLARSSL_ERR_MPI_BAD_INPUT_DATA == -4
POLARSSL_ERR_MPI_INVALID_CHARACTER == -6
POLARSSL_ERR_MPI_BUFFER_TOO_SMALL == -8
POLARSSL_ERR_MPI_NEGATIVE_VALUE == -10
POLARSSL_ERR_MPI_DIVISION_BY_ZERO == -12
POLARSSL_ERR_MPI_NOT_ACCEPTABLE == -14
POLARSSL_ERR_MPI_MALLOC_FAILED == -16

----------------------------------------------------------------------------
(* t_uint arithmetic                                                       *)

\* truncation of an integer to t_uint
Wrap(x) == x % LimbBase

\* x << k and x >> k on t_uint, 0 <= k < biL
Shl(x, k) == (x * (2 ^ k)) % LimbBase
Shr(x, k) == x \div (2 ^ k)

\* ~x on t_uint
BitNot(x) == LimbBase - 1 - x

RECURSIVE BitOr(_, _)
BitOr(a, b) ==
    IF a = 0 THEN b
    ELSE IF b = 0 THEN a
    ELSE (IF a % 2 = 1 \/ b % 2 = 1 THEN 1 ELSE 0)
         + 2 * BitOr(a \div 2, b \div 2)

RECURSIVE BitAnd(_, _)
BitAnd(a, b) ==
    IF a = 0 \/ b = 0 THEN 0
    ELSE (IF a % 2 = 1 /\ b % 2 = 1 THEN 1 ELSE 0)
         + 2 * BitAnd(a \div 2, b \div 2)

\* the C value of a comparison
Bool(b) == IF b THEN 1 ELSE 0

Zeros(n) == [i \in 1..n |-> 0]

\* the value v, computed once, under the name the operator F gives it: one
\* statement of the source followed by the statements after it
With(v, F(_)) == CHOOSE y \in {F(x) : x \in {v}} : TRUE

\* the buffer p reallocated to n >= Len(p) limbs, the new limbs zeroed
Realloc(p, n) == [k \in 1..n |-> IF k <= Len(p) THEN p[k] ELSE 0]

BITS_TO_LIMBS(i) == (i + biL - 1) \div biL

----------------------------------------------------------------------------
(* The integer an MPI stands for (used by the properties only)             *)

RECURSIVE MagFrom(_, _)
MagFrom(p, i) == IF i > Len(p) THEN 0 ELSE p[i] + LimbBase * MagFrom(p, i + 1)

Mag(p) == MagFrom(p, 1)

Value(X) == X.s * Mag(X.p)

Abs(v) == IF v < 0 THEN -v ELSE v

\* gcd of two naturals, by Euclid
RECURSIVE Euclid(_, _)
Euclid(x, y) == IF y = 0 THEN x ELSE Euclid(y, x % y)

\* (a ^ e) mod n for e >= 0 and n > 0, by squaring
RECURSIVE PowMod(_, _, _)
PowMod(a, e, n) ==
    IF e = 0 THEN 1 % n
    ELSE LET h == PowMod(a, e \div 2, n)
         IN  IF e % 2 = 0 THEN (h * h) % n
             ELSE (((h * h) % n) * (a % n)) % n

----------------------------------------------------------------------------
(* Allocation, copy, set                                                   *)

\* for( i = n; i > 0; i-- ) if( p[i - 1] != 0 ) break;   yields i
RECURSIVE TopLimb(_, _)
TopLimb(p, i) ==
    IF i = 0 THEN 0
    ELSE IF p[i] # 0 THEN i
    ELSE TopLimb(p, i - 1)

mpi_init == [s |-> 1, p |-> << >>]

mpi_free(X) == [s |-> 1, p |-> << >>]

mpi_grow(X, nblimbs) ==
    IF Len(X.p) < nblimbs
    THEN [X EXCEPT !.p = Realloc(X.p, nblimbs)]
    ELSE X

mpi_copy(X, Y) ==
    IF Len(Y.p) = 0 THEN mpi_free(X)
    ELSE LET t == TopLimb(Y.p, Len(Y.p))
             i == IF t = 0 THEN 1 ELSE t
             G == mpi_grow([X EXCEPT !.s = Y.s], i)
         IN  [G EXCEPT !.p = [k \in 1..Len(G.p) |->
                                 IF k <= i THEN Y.p[k] ELSE 0]]

\* a limb access: object o ("X" or "Y"), index i, w for a store
Access(o, i, w) == [o |-> o, i |-> i, w |-> w]

\* the accesses t followed by the accesses u
Logged(t, u) ==
    [k \in 1..(Len(t) + Len(u)) |->
       IF k <= Len(t) THEN t[k] ELSE u[k - Len(t)]]

\* for( i = 0; i < Y->n; i++ )
\*     X->p[i] = X->p[i] * (1 - assign) + Y->p[i] * assign;
\* as [p, t]: the limbs of X and the accesses made; i is the C index
RECURSIVE cond_assign_blend(_, _, _, _, _)
cond_assign_blend(p, Y, assign, i, t) ==
    IF i >= Len(Y.p) THEN [p |-> p, t |-> t]
    ELSE cond_assign_blend(
             [p EXCEPT ![i + 1] =
                 Wrap((@ * (1 - assign)) + (Y.p[i + 1] * assign))],
             Y, assign, i + 1,
             Logged(t, << Access("X", i, FALSE), Access("Y", i, FALSE),
                          Access("X", i, TRUE) >>))

\* mpi_safe_cond_assign without the loop over the limbs above Y->n
cond_assign_clear_skipped(p, assign, i, t) == [p |-> p, t |-> t]

\* for( ; i < X->n; i++ ) X->p[i] *= (1 - assign);
RECURSIVE cond_assign_clear(_, _, _, _)
cond_assign_clear(p, assign, i, t) ==
    IF i >= Len(p) THEN [p |-> p, t |-> t]
    ELSE cond_assign_clear(
             [p EXCEPT ![i + 1] = Wrap(@ * (1 - assign))],
             assign, i + 1,
             Logged(t, << Access("X", i, FALSE), Access("X", i, TRUE) >>))

\* flag is the uint8_t passed as assign; the result is [ret, X, t], t being
\* the limb accesses in the order they are made
mpi_safe_cond_assign(X, Y, flag) ==
    LET assign == IF flag # 0 THEN 1 ELSE 0
        X1 == mpi_grow(X, Len(Y.p))
        s1 == (X1.s * (1 - assign)) + (Y.s * assign)
    IN  With(cond_assign_blend(X1.p, Y, assign, 0, << >>), LAMBDA l1 :
        With(cond_assign_clear(l1.p, assign, Len(Y.p), l1.t), LAMBDA l2 :
        [ret |-> 0, X |-> [s |-> s1, p |-> l2.p], t |-> l2.t]))

mpi_lset(X, z) ==
    LET G == mpi_grow(X, 1)
    IN  [s |-> IF z < 0 THEN -1 ELSE 1,
         p |-> [k \in 1..Len(G.p) |-> IF k = 1 THEN Wrap(Abs(z)) ELSE 0]]

----------------------------------------------------------------------------
(* Bit queries                                                             *)

\* for( j = 0; j < biL; j++ ) if( ( x >> j ) & 1 ) -> j ; biL when x = 0
RECURSIVE LowBit(_, _)
LowBit(x, j) ==
    IF j = biL THEN biL
    ELSE IF Shr(x, j) % 2 # 0 THEN j
    ELSE LowBit(x, j + 1)

RECURSIVE lsb_loop(_, _)
lsb_loop(p, i) ==
    IF i > Len(p) THEN 0
    ELSE IF LowBit(p[i], 0) < biL THEN (i - 1) * biL + LowBit(p[i], 0)
    ELSE lsb_loop(p, i + 1)

mpi_lsb(X) == lsb_loop(X.p, 1)

\* for( j = biL; j > 0; j-- ) if( ( x >> ( j - 1 ) ) & 1 ) break;   yields j
RECURSIVE HighBit(_, _)
HighBit(x, j) ==
    IF j = 0 THEN 0
    ELSE IF Shr(x, j - 1) % 2 # 0 THEN j
    ELSE HighBit(x, j - 1)

\* X->n >= 1 is required: the loop index starts at X->n - 1
mpi_msb(X) ==
    LET t == TopLimb(X.p, Len(X.p))
        i == IF t = 0 THEN 0 ELSE t - 1
    IN  (i * biL) + HighBit(X.p[i + 1], biL)

----------------------------------------------------------------------------
(* Shifts                                                                  *)

\* mpi_shift_l without the shift by count % limb_size
shift_l_whole_limbs(X, count) ==
    LET v0 == count \div biL
        i  == mpi_msb(X) + count
    IN  With(IF Len(X.p) * biL < i THEN mpi_grow(X, BITS_TO_LIMBS(i)) ELSE X,
             LAMBDA G :
        [G EXCEPT !.p = IF v0 > 0
                        THEN [k \in 1..Len(G.p) |->
                                IF k > v0 THEN G.p[k - v0] ELSE 0]
                        ELSE G.p])

mpi_shift_l(X, count) ==
    LET v0 == count \div biL
        t1 == count % biL
        i  == mpi_msb(X) + count
    IN  With(IF Len(X.p) * biL < i THEN mpi_grow(X, BITS_TO_LIMBS(i)) ELSE X,
             LAMBDA G :
        \* shift by count / limb_size
        With(IF v0 > 0
             THEN [k \in 1..Len(G.p) |-> IF k > v0 THEN G.p[k - v0] ELSE 0]
             ELSE G.p,
             LAMBDA p1 :
        \* shift by count % limb_size
        [G EXCEPT !.p = IF t1 > 0
                        THEN [k \in 1..Len(p1) |->
                                IF k <= v0 THEN p1[k]
                                ELSE BitOr(Shl(p1[k], t1),
                                           IF k = v0 + 1 THEN 0
                                           ELSE Shr(p1[k - 1], biL - t1))]
                        ELSE p1]))

mpi_shift_r(X, count) ==
    LET v0 == count \div biL
        v1 == count % biL
        n  == Len(X.p)
    IN  IF v0 > n \/ (v0 = n /\ v1 > 0) THEN mpi_lset(X, 0)
        ELSE \* shift by count / limb_size
             With(IF v0 > 0
                  THEN [k \in 1..n |-> IF k <= n - v0 THEN X.p[k + v0] ELSE 0]
                  ELSE X.p,
                  LAMBDA p1 :
             \* shift by count % limb_size
             [X EXCEPT !.p = IF v1 > 0
                             THEN [k \in 1..n |->
                                     BitOr(Shr(p1[k], v1),
                                           IF k = n THEN 0
                                           ELSE Shl(p1[k + 1], biL - v1))]
                             ELSE p1])

----------------------------------------------------------------------------
(* Comparisons                                                             *)

\* for( ; i > 0; i-- ) limb-wise comparison from the top; 1, -1 or 0
RECURSIVE cmp_limbs(_, _, _)
cmp_limbs(xp, yp, i) ==
    IF i = 0 THEN 0
    ELSE IF xp[i] > yp[i] THEN 1
    ELSE IF xp[i] < yp[i] THEN -1
    ELSE cmp_limbs(xp, yp, i - 1)

mpi_cmp_abs(X, Y) ==
    LET i == TopLimb(X.p, Len(X.p))
        j == TopLimb(Y.p, Len(Y.p))
    IN  IF i = 0 /\ j = 0 THEN 0
        ELSE IF i > j THEN 1
        ELSE IF j > i THEN -1
        ELSE cmp_limbs(X.p, Y.p, i)

mpi_cmp_mpi(X, Y) ==
    LET i == TopLimb(X.p, Len(X.p))
        j == TopLimb(Y.p, Len(Y.p))
    IN  IF i = 0 /\ j = 0 THEN 0
        ELSE IF i > j THEN X.s
        ELSE IF j > i THEN -Y.s
        ELSE IF X.s > 0 /\ Y.s < 0 THEN 1
        ELSE IF Y.s > 0 /\ X.s < 0 THEN -1
        ELSE X.s * cmp_limbs(X.p, Y.p, i)

\* the one-limb MPI the *_int functions build on the stack for a t_sint
StackInt(z) == [s |-> IF z < 0 THEN -1 ELSE 1, p |-> << Wrap(Abs(z)) >>]

mpi_cmp_int(X, z) == mpi_cmp_mpi(X, StackInt(z))

----------------------------------------------------------------------------
(* Unsigned addition and subtraction                                       *)
(*                                                                         *)
(* The output X may be the same object as an input.  XisA (XisB) says that *)
(* the pointer X equals the pointer A (B); the caller then passes the same *)
(* record for both.                                                        *)

\* the first loop of mpi_add_abs: i and the limb index are 1-based, ali
\* says that o and p walk the same buffer, so that *o reads back what was
\* just stored through p
RECURSIVE add_abs_loop(_, _, _, _, _, _)
add_abs_loop(p, o, ali, i, j, c) ==
    IF i > j THEN [p |-> p, c |-> c]
    ELSE LET p1 == Wrap(p[i] + c)
             c1 == Bool(p1 < c)
             o1 == IF ali THEN p1 ELSE o[i]
             p2 == Wrap(p1 + o1)
             o2 == IF ali THEN p2 ELSE o[i]
             c2 == c1 + Bool(p2 < o2)
         IN  add_abs_loop([p EXCEPT ![i] = p2], o, ali, i + 1, j, c2)

\* mpi_add_abs without the residual carry loop: the carry out of the last
\* limb of B is dropped
add_abs_carry_dropped(p, i, c) == p

\* while( c != 0 ): the residual carry, growing X when it runs out of limbs
RECURSIVE add_abs_carry(_, _, _)
add_abs_carry(p, i, c) ==
    IF c = 0 THEN p
    ELSE LET g  == IF i > Len(p) THEN Realloc(p, i) ELSE p
             p1 == Wrap(g[i] + c)
         IN  add_abs_carry([g EXCEPT ![i] = p1], i + 1, Bool(p1 < c))

mpi_add_abs(X, A, B, XisA, XisB) ==
    LET \* if( X == B ) { T = A; A = X; B = T; }
        A1    == IF XisB THEN X ELSE A
        B1    == IF XisB THEN A ELSE B
        XisA1 == XisA \/ XisB
        XisB1 == XisA /\ XisB
    IN  \* if( X != A ) mpi_copy( X, A );
        With(IF XisA1 THEN X ELSE mpi_copy(X, A1), LAMBDA X1 :
        With(IF XisB1 THEN X1.p ELSE B1.p, LAMBDA o :
        With(TopLimb(o, Len(o)), LAMBDA j :
        With(mpi_grow([X1 EXCEPT !.s = 1], j), LAMBDA X2 :
        With(add_abs_loop(X2.p, o, XisB1, 1, j, 0), LAMBDA L :
        [ret |-> 0,
         X   |-> [X2 EXCEPT !.p = add_abs_carry(L.p, j + 1, L.c)]])))))

RECURSIVE sub_hlp_loop(_, _, _, _, _)
sub_hlp_loop(n, s, d, i, c) ==
    IF i <= n
    THEN LET z  == Bool(d[i] < c)
             d1 == Wrap(d[i] - c)
             c1 == Bool(d1 < s[i]) + z
         IN  sub_hlp_loop(n, s, [d EXCEPT ![i] = Wrap(d1 - s[i])], i + 1, c1)
    ELSE IF c # 0
    THEN sub_hlp_loop(n, s, [d EXCEPT ![i] = Wrap(d[i] - c)], i + 1,
                      Bool(d[i] < c))
    ELSE d

mpi_sub_hlp(n, s, d) == sub_hlp_loop(n, s, d, 1, 0)

mpi_sub_abs(X, A, B, XisA, XisB) ==
    IF mpi_cmp_abs(A, B) < 0
    THEN [ret |-> POLARSSL_ERR_MPI_NEGATIVE_VALUE, X |-> X]
    ELSE \* if( X == B ) { mpi_copy( &TB, B ); B = &TB; }
         With(IF XisB THEN mpi_copy(mpi_init, B) ELSE B, LAMBDA TB :
         [ret |-> 0,
          X   |-> [s |-> 1,
                   p |-> mpi_sub_hlp(TopLimb(TB.p, Len(TB.p)), TB.p,
                                     IF XisA THEN X.p
                                     ELSE mpi_copy(X, A).p)]])

----------------------------------------------------------------------------
(* Signed addition and subtraction                                         *)

\* the result r of the unsigned operation with X->s = s stored after it
set_sign(r, s) == [r EXCEPT !.X.s = s]

mpi_add_mpi(X, A, B, XisA, XisB) ==
    IF A.s * B.s < 0
    THEN IF mpi_cmp_abs(A, B) >= 0
         THEN set_sign(mpi_sub_abs(X, A, B, XisA, XisB), A.s)
         ELSE set_sign(mpi_sub_abs(X, B, A, XisB, XisA), -A.s)
    ELSE set_sign(mpi_add_abs(X, A, B, XisA, XisB), A.s)

mpi_sub_mpi(X, A, B, XisA, XisB) ==
    IF A.s * B.s > 0
    THEN IF mpi_cmp_abs(A, B) >= 0
         THEN set_sign(mpi_sub_abs(X, A, B, XisA, XisB), A.s)
         ELSE set_sign(mpi_sub_abs(X, B, A, XisB, XisA), -A.s)
    ELSE set_sign(mpi_add_abs(X, A, B, XisA, XisB), A.s)

mpi_add_int(X, A, b, XisA) == mpi_add_mpi(X, A, StackInt(b), XisA, FALSE)

mpi_sub_int(X, A, b, XisA) == mpi_sub_mpi(X, A, StackInt(b), XisA, FALSE)

----------------------------------------------------------------------------
(* Multiplication                                                          *)

\* one MULADDC_CORE step: the limb *d + *s * b + c, as [r0, c]
MULADDC_CORE(sk, dk, b, c) ==
    LET t == dk + sk * b + c
    IN  [r0 |-> t % LimbBase, c |-> t \div LimbBase]

\* for( ; i > 0; i-- ) MULADDC_CORE over s[1..i] into d[off+1 .. off+i]
RECURSIVE mul_hlp_loop(_, _, _, _, _, _, _)
mul_hlp_loop(i, s, d, off, b, k, c) ==
    IF k > i THEN [d |-> d, c |-> c]
    ELSE LET m == MULADDC_CORE(s[k], d[off + k], b, c)
         IN  mul_hlp_loop(i, s, [d EXCEPT ![off + k] = m.r0], off, b,
                          k + 1, m.c)

\* mpi_mul_hlp without its final carry loop: the carry out of the row is
\* dropped
mul_hlp_carry_dropped(d, k, c) == d

\* do { *d += c; c = ( *d < c ); d++; } while( c != 0 );
RECURSIVE mul_hlp_carry(_, _, _)
mul_hlp_carry(d, k, c) ==
    LET d1 == Wrap(d[k] + c)
        c1 == Bool(d1 < c)
        D  == [d EXCEPT ![k] = d1]
    IN  IF c1 # 0 THEN mul_hlp_carry(D, k + 1, c1) ELSE D

\* d is the whole buffer and off the offset of the pointer d into it
mpi_mul_hlp(i, s, d, off, b) ==
    With(mul_hlp_loop(i, s, d, off, b, 1, 0), LAMBDA L :
         mul_hlp_carry(L.d, off + i + 1, L.c))

\* for( i++; j > 0; j-- ) mpi_mul_hlp( i - 1, A->p, X->p + j - 1, B->p[j - 1] )
RECURSIVE mul_mpi_loop(_, _, _, _, _)
mul_mpi_loop(xp, ap, bp, i, j) ==
    IF j = 0 THEN xp
    ELSE With(mpi_mul_hlp(i, ap, xp, j - 1, bp[j]), LAMBDA xp1 :
         mul_mpi_loop(xp1, ap, bp, i, j - 1))

mpi_mul_mpi(X, A, B, XisA, XisB) ==
    \* if( X == A ) { mpi_copy( &TA, A ); A = &TA; }, and the same for B
    With(IF XisA THEN mpi_copy(mpi_init, A) ELSE A, LAMBDA TA :
    With(IF XisB THEN mpi_copy(mpi_init, B) ELSE B, LAMBDA TB :
    LET i == TopLimb(TA.p, Len(TA.p))
        j == TopLimb(TB.p, Len(TB.p))
    IN  [ret |-> 0,
         X   |-> [s |-> TA.s * TB.s,
                  p |-> mul_mpi_loop(mpi_lset(mpi_grow(X, i + j), 0).p,
                                     TA.p, TB.p, i, j)]]))

\* b arrives as a t_sint and is stored into the limb p[0] as it is
mpi_mul_int(X, A, b, XisA) ==
    mpi_mul_mpi(X, A, [s |-> 1, p |-> << Wrap(b) >>], XisA, FALSE)

----------------------------------------------------------------------------
(* Division                                                                *)

\* quotient digit from the double-word divide (POLARSSL_HAVE_UDBL)
div_est_udbl(xi, xi1, yt) ==
    LET r == ((xi * LimbBase) + xi1) \div yt
    IN  IF r > LimbBase - 1 THEN LimbBase - 1 ELSE r

\* while( r >= d && r < m ) q--, r += d;
RECURSIVE qrnnd_adjust(_, _, _, _)
qrnnd_adjust(q, r, d, m) ==
    IF r >= d /\ r < m
    THEN qrnnd_adjust(Wrap(q - 1), Wrap(r + d), d, m)
    ELSE [q |-> q, r |-> r]

\* if( r < m ) { q--, r += d; while ... }  r -= m;
qrnnd_half(q, r, d, m) ==
    LET a == IF r < m THEN qrnnd_adjust(Wrap(q - 1), Wrap(r + d), d, m)
             ELSE [q |-> q, r |-> r]
    IN  [q |-> a.q, r |-> Wrap(a.r - m)]

\* quotient digit from the half-limb long division (__udiv_qrnnd_c)
div_est_qrnnd(xi, xi1, yt) ==
    LET d  == yt
        d0 == Shr(Shl(d, biH), biH)
        d1 == Shr(d, biH)
        q1 == xi \div d1
        r1 == BitOr(Shl(Wrap(xi - (d1 * q1)), biH), Shr(xi1, biH))
        h1 == qrnnd_half(q1, r1, d, Wrap(q1 * d0))
        q0 == h1.r \div d1
        r0 == BitOr(Shl(Wrap(h1.r - (d1 * q0)), biH), Shr(Shl(xi1, biH), biH))
        h0 == qrnnd_half(q0, r0, d, Wrap(q0 * d0))
    IN  BitOr(Shl(h1.q, biH), h0.q)

\* udbl tells which of the two estimators the build compiled in
div_estimate(xi, xi1, yt, udbl) ==
    IF xi >= yt THEN BitNot(0)
    ELSE IF udbl THEN div_est_udbl(xi, xi1, yt)
    ELSE div_est_qrnnd(xi, xi1, yt)

\* while( mpi_cmp_mpi( &X, &Y ) >= 0 ) { Z.p[n - t]++; X -= Y; }
RECURSIVE div_pre(_, _, _, _)
div_pre(X, Y, z, cnt) ==
    IF mpi_cmp_mpi(X, Y) >= 0
    THEN div_pre(mpi_sub_mpi(X, X, Y, TRUE, FALSE).X, Y, Wrap(z + 1), cnt + 1)
    ELSE [X |-> X, z |-> z, pre |-> cnt]

\* the do ... while( mpi_cmp_mpi( &T1, &T2 ) > 0 ) loop; q arrives already
\* decremented, i and t are the C indices
RECURSIVE div_refine(_, _, _, _, _, _, _)
div_refine(q, T1, X, Y, i, t, cnt) ==
    \* T1 = ( Y.p[t - 1], Y.p[t] )
    With([mpi_lset(T1, 0) EXCEPT !.p[1] = IF t < 1 THEN 0 ELSE Y.p[t],
                                 !.p[2] = Y.p[t + 1]],
         LAMBDA T1b :
    \* mpi_mul_int( &T1, &T1, Z.p[i - t - 1] )
    With(mpi_mul_int(T1b, T1b, q, TRUE).X, LAMBDA T1c :
    \* T2 = ( X.p[i - 2], X.p[i - 1], X.p[i] )
    IF mpi_cmp_mpi(T1c, [mpi_lset(mpi_grow(mpi_init, 3), 0) EXCEPT
                            !.p[1] = IF i < 2 THEN 0 ELSE X.p[i - 1],
                            !.p[2] = IF i < 1 THEN 0 ELSE X.p[i],
                            !.p[3] = X.p[i + 1]]) > 0
    THEN div_refine(Wrap(q - 1), T1c, X, Y, i, t, cnt + 1)
    ELSE [q |-> q, T1 |-> T1c, dec |-> cnt]))

\* for( i = n; i > t; i-- ): one quotient digit per iteration; g collects
\* which of the branches were taken
RECURSIVE div_digits(_, _, _, _, _, _, _, _)
div_digits(X, Y, Z, T1, i, t, udbl, g) ==
    IF i <= t THEN [X |-> X, Z |-> Z, g |-> g]
    ELSE \* Z.p[i - t - 1]++; do { Z.p[i - t - 1]--; ... } while( T1 > T2 )
         With(div_refine(
                  Wrap(Wrap(div_estimate(X.p[i + 1], X.p[i], Y.p[t + 1],
                                         udbl) + 1) - 1),
                  T1, X, Y, i, t, 0),
              LAMBDA rf :
         \* T1 = Y * Z.p[i - t - 1]; T1 <<= biL * (i - t - 1)
         With(mpi_shift_l(mpi_mul_int(rf.T1, Y, rf.q, FALSE).X,
                          biL * (i - t - 1)),
              LAMBDA T1b :
         \* X -= T1
         With(mpi_sub_mpi(X, X, T1b, TRUE, FALSE).X, LAMBDA X1 :
         LET neg == mpi_cmp_int(X1, 0) < 0
         IN  \* if( X < 0 ) { T1 = Y << biL * (i - t - 1); X += T1; ... }
             With(IF neg
                  THEN mpi_shift_l(mpi_copy(T1b, Y), biL * (i - t - 1))
                  ELSE T1b,
                  LAMBDA T1c :
             div_digits(IF neg THEN mpi_add_mpi(X1, X1, T1c, TRUE, FALSE).X
                        ELSE X1,
                        Y,
                        [Z EXCEPT !.p[i - t] = IF neg THEN Wrap(rf.q - 1)
                                               ELSE rf.q],
                        T1c, i - 1, t, udbl,
                        [g EXCEPT
                           !.hi = g.hi + Bool(X.p[i + 1] >= Y.p[t + 1]),
                           !.dec = g.dec + rf.dec,
                           !.addback = g.addback + Bool(neg)])))))

NoPath == [fast |-> FALSE, pre |-> 0, hi |-> 0, dec |-> 0, addback |-> 0,
           k |-> 0, ytop |-> 0]

\* A is smaller than B in magnitude:
\* if( Q != NULL ) lset( Q, 0 ); if( R != NULL ) copy( R, A ); return 0;
div_small(Q, R, A, hasQ, hasR, al) ==
    LET both == hasQ /\ hasR /\ al.QisA /\ al.RisA
    IN  With(IF hasQ THEN mpi_lset(Q, 0) ELSE Q, LAMBDA Q1 :
        \* A reads as Q after the store through Q when Q == A
        With(IF hasR /\ ~al.RisA
             THEN mpi_copy(IF both THEN Q1 ELSE R,
                           IF hasQ /\ al.QisA THEN Q1 ELSE A)
             ELSE (IF both THEN Q1 ELSE R),
             LAMBDA R1 :
        [ret |-> 0, Q |-> IF both THEN R1 ELSE Q1, R |-> R1,
         path |-> [NoPath EXCEPT !.fast = TRUE]]))

\* the results stored at the end of the long division, Z the quotient and
\* X the remainder of the normalized operands:
\* if( Q != NULL ) { copy( Q, &Z ); Q->s = A->s * B->s; }
\* if( R != NULL ) { X >>= k; X.s = A->s; copy( R, &X ); if( R == 0 ) R->s = 1; }
div_store(Q, R, A, B, hasQ, hasR, al, Z, X, k, g) ==
    LET same == hasQ /\ hasR /\ ((al.QisA /\ al.RisA) \/ (al.QisB /\ al.RisB))
    IN  With(IF hasQ THEN mpi_copy(Q, Z) ELSE Q, LAMBDA Qc :
        With(IF hasQ
             THEN [Qc EXCEPT !.s = (IF al.QisA THEN Qc.s ELSE A.s)
                                   * (IF al.QisB THEN Qc.s ELSE B.s)]
             ELSE Q,
             LAMBDA Q1 :
        \* the object R points to, and A->s, as they read after Q was stored
        With(IF hasR
             THEN mpi_copy(IF al.RisA
                           THEN (IF hasQ /\ al.QisA THEN Q1 ELSE A)
                           ELSE IF al.RisB
                           THEN (IF hasQ /\ al.QisB THEN Q1 ELSE B)
                           ELSE R,
                           [mpi_shift_r(X, k) EXCEPT
                               !.s = IF hasQ /\ al.QisA THEN Q1.s ELSE A.s])
             ELSE R,
             LAMBDA Rc :
        With(IF hasR /\ mpi_cmp_int(Rc, 0) = 0 THEN [Rc EXCEPT !.s = 1]
             ELSE Rc,
             LAMBDA R1 :
        [ret |-> 0, Q |-> IF same THEN R1 ELSE Q1, R |-> R1, path |-> g]))))

\* the long division of X by Y, both normalized by the shift k: the
\* alignment of Y, the first quotient limb, the digit loop
div_long(X1, Y1, Z0, T1, k, udbl) ==
    LET n == Len(X1.p) - 1
        t == Len(Y1.p) - 1
    IN  With(mpi_shift_l(Y1, biL * (n - t)), LAMBDA Y2 :
        With(div_pre(X1, Y2, Z0.p[n - t + 1], 0), LAMBDA pr :
        div_digits(pr.X,
                   mpi_shift_r(Y2, biL * (n - t)),
                   [Z0 EXCEPT !.p[n - t + 1] = pr.z], T1, n, t, udbl,
                   [NoPath EXCEPT !.pre = pr.pre, !.k = k,
                                  !.ytop = Y1.p[t + 1]])))

\* k = mpi_msb( &Y ) % biL; if( k < biL - 1 ) { k = biL - 1 - k; X <<= k;
\* Y <<= k; } else k = 0;
div_normalize(X0, Y0, Z0, T1, udbl) ==
    LET m == mpi_msb(Y0) % biL
        k == IF m < biL - 1 THEN biL - 1 - m ELSE 0
    IN  div_long(IF m < biL - 1 THEN mpi_shift_l(X0, k) ELSE X0,
                 IF m < biL - 1 THEN mpi_shift_l(Y0, k) ELSE Y0,
                 Z0, T1, k, udbl)

\* Q and R are the contents of the output objects at the call; hasQ / hasR
\* tell whether the pointer is non-NULL; al.QisA, al.QisB, al.RisA, al.RisB
\* tell which output pointer equals which input pointer.  The result has
\* the final contents of Q and R and, in path, the branches taken.
mpi_div_mpi(Q, R, A, B, hasQ, hasR, al, udbl) ==
    IF mpi_cmp_int(B, 0) = 0
    THEN [ret |-> POLARSSL_ERR_MPI_DIVISION_BY_ZERO, Q |-> Q, R |-> R,
          path |-> NoPath]
    ELSE IF mpi_cmp_abs(A, B) < 0
    THEN div_small(Q, R, A, hasQ, hasR, al)
    ELSE With(div_normalize([mpi_copy(mpi_init, A) EXCEPT !.s = 1],
                            [mpi_copy(mpi_init, B) EXCEPT !.s = 1],
                            mpi_lset(mpi_grow(mpi_init, Len(A.p) + 2), 0),
                            mpi_grow(mpi_init, 2), udbl),
              LAMBDA dg :
         div_store(Q, R, A, B, hasQ, hasR, al, dg.Z, dg.X, dg.g.k, dg.g))

NoAlias == [QisA |-> FALSE, QisB |-> FALSE, RisA |-> FALSE, RisB |-> FALSE]

mpi_div_int(Q, R, A, b, hasQ, hasR, al, udbl) ==
    mpi_div_mpi(Q, R, A, StackInt(b), hasQ, hasR, al, udbl)

----------------------------------------------------------------------------
(* Modulo                                                                  *)

\* mpi_mod_mpi without the loop that lifts a negative remainder
mod_add_skipped(R, B) == R

\* while( mpi_cmp_int( R, 0 ) < 0 ) mpi_add_mpi( R, R, B );
RECURSIVE mod_add_loop(_, _)
mod_add_loop(R, B) ==
    IF mpi_cmp_int(R, 0) < 0
    THEN mod_add_loop(mpi_add_mpi(R, R, B, TRUE, FALSE).X, B)
    ELSE R

\* while( mpi_cmp_mpi( R, B ) >= 0 ) mpi_sub_mpi( R, R, B );
RECURSIVE mod_sub_loop(_, _)
mod_sub_loop(R, B) ==
    IF mpi_cmp_mpi(R, B) >= 0
    THEN mod_sub_loop(mpi_sub_mpi(R, R, B, TRUE, FALSE).X, B)
    ELSE R

\* RisA: the pointers R and A are equal, and R is then passed as A too
mpi_mod_mpi(R, A, B, RisA, udbl) ==
    IF mpi_cmp_int(B, 0) < 0
    THEN [ret |-> POLARSSL_ERR_MPI_NEGATIVE_VALUE, R |-> R]
    ELSE With(mpi_div_mpi(mpi_init, R, A, B, FALSE, TRUE,
                          [NoAlias EXCEPT !.RisA = RisA], udbl),
              LAMBDA d :
         IF d.ret # 0 THEN [ret |-> d.ret, R |-> d.R]
         ELSE [ret |-> 0, R |-> mod_sub_loop(mod_add_loop(d.R, B), B)])

\* for( i = A->n, y = 0; i > 0; i-- ): the two half-limb steps on limb i
RECURSIVE mod_int_loop(_, _, _, _)
mod_int_loop(p, b, i, y) ==
    IF i = 0 THEN y
    ELSE LET x  == p[i]
             y1 == BitOr(Shl(y, biH), Shr(x, biH))
             y2 == Wrap(y1 - ((y1 \div b) * b))
             x1 == Shl(x, biH)
             y3 == BitOr(Shl(y2, biH), Shr(x1, biH))
         IN  mod_int_loop(p, b, i - 1, Wrap(y3 - ((y3 \div b) * b)))

\* b is a t_sint; r is the t_uint the pointer r refers to
mpi_mod_int(r, A, b) ==
    IF b = 0 THEN [ret |-> POLARSSL_ERR_MPI_DIVISION_BY_ZERO, r |-> r]
    ELSE IF b < 0 THEN [ret |-> POLARSSL_ERR_MPI_NEGATIVE_VALUE, r |-> r]
    ELSE IF b = 1 THEN [ret |-> 0, r |-> 0]
    ELSE IF b = 2 THEN [ret |-> 0, r |-> BitAnd(A.p[1], 1)]
    ELSE With(mod_int_loop(A.p, b, Len(A.p), 0), LAMBDA y :
         [ret |-> 0, r |-> IF A.s < 0 /\ y # 0 THEN Wrap(b - y) ELSE y])

----------------------------------------------------------------------------
(* Montgomery multiplication and sliding-window exponentiation             *)

\* for( i = biL; i >= 8; i /= 2 ) x *= ( 2 - ( m0 * x ) );
RECURSIVE montg_init_loop(_, _, _)
montg_init_loop(x, m0, i) ==
    IF i >= 8
    THEN montg_init_loop(Wrap(x * Wrap(2 - Wrap(m0 * x))), m0, i \div 2)
    ELSE x

\* the value stored through mm
mpi_montg_init(N) ==
    LET m0 == N.p[1]
    IN  Wrap(BitNot(montg_init_loop(
                 Wrap(m0 + Shl(BitAnd(Wrap(m0 + 2), 4), 1)), m0, biL)) + 1)

\* for( i = 0; i < n; i++ ): d is the buffer of T, the pointer d of the
\* source is at offset i into it
RECURSIVE montmul_loop(_, _, _, _, _, _, _)
montmul_loop(Ap, Bp, Np, mm, d, i, n) ==
    IF i = n THEN d
    ELSE LET u0 == Ap[i + 1]
             u1 == Wrap(Wrap(d[i + 1] + (u0 * Bp[1])) * mm)
             m  == IF Len(Bp) < n THEN Len(Bp) ELSE n
         IN  With(mpi_mul_hlp(m, Bp, d, i, u0), LAMBDA d1 :
             With(mpi_mul_hlp(n, Np, d1, i, u1), LAMBDA d2 :
             \* *d++ = u0; d[n + 1] = 0;
             montmul_loop(Ap, Bp, Np, mm,
                          [d2 EXCEPT ![i + 1] = u0, ![i + n + 3] = 0],
                          i + 1, n)))

\* The new contents of A.  T is scratch: it is cleared on entry, and the
\* subtraction the source makes on it when A < N changes nothing else.
mpi_montmul(A, B, N, mm, T) ==
    LET n == Len(N.p)
    IN  With(montmul_loop(A.p, B.p, N.p, mm, Zeros(Len(T.p)), 0, n),
             LAMBDA d :
        \* __movsb( A->p, d, (n + 1) * ciL )
        With([A EXCEPT !.p = [k \in 1..Len(A.p) |->
                                IF k <= n + 1 THEN d[n + k] ELSE A.p[k]]],
             LAMBDA A1 :
        IF mpi_cmp_abs(A1, N) >= 0
        THEN [A1 EXCEPT !.p = mpi_sub_hlp(n, N.p, A1.p)]
        ELSE A1))

mpi_montred(A, N, mm, T) ==
    mpi_montmul(A, [s |-> 1, p |-> << 1 >>], N, mm, T)

\* for( i = 0; i < k; i++ ) mpi_montmul( X, X, N, mm, &T );
RECURSIVE mont_squares(_, _, _, _, _)
mont_squares(X, N, mm, T, k) ==
    IF k = 0 THEN X
    ELSE With(mpi_montmul(X, X, N, mm, T), LAMBDA X1 :
         mont_squares(X1, N, mm, T, k - 1))

\* the sliding-window cap, a compile-time setting of the library
POLARSSL_MPI_WINDOW_SIZE == 6

\* wsize from i = mpi_msb( E )
exp_wsize(i) ==
    LET w == IF i > 671 THEN 6 ELSE IF i > 239 THEN 5
             ELSE IF i > 79 THEN 4 ELSE IF i > 23 THEN 3 ELSE 1
    IN  IF w > POLARSSL_MPI_WINDOW_SIZE THEN POLARSSL_MPI_WINDOW_SIZE ELSE w

\* for( i = j + 1; i < (one << wsize); i++ ): W[i] = W[i - 1] * W[1]
RECURSIVE exp_table_loop(_, _, _, _, _, _)
exp_table_loop(W, N, mm, T, i, wsize) ==
    IF i >= 2 ^ wsize THEN W
    ELSE With(mpi_montmul(
                  mpi_copy(mpi_grow(mpi_init, Len(N.p) + 1), W[i - 1]),
                  W[1], N, mm, T),
              LAMBDA Wi :
         exp_table_loop([W EXCEPT ![i] = Wi], N, mm, T, i + 1, wsize))

\* the table W with W[1] = W1 and, if wsize > 1, the entries from
\* j = 1 << (wsize - 1) on: W[j] = W[1] ^ (2 ^ (wsize - 1)), then the loop
exp_table(W1, N, mm, T, wsize) ==
    LET j  == 2 ^ (wsize - 1)
        W0 == [k \in 1..((2 ^ wsize) - 1) |-> IF k = 1 THEN W1 ELSE mpi_init]
    IN  IF wsize > 1
        THEN With(mont_squares(
                      mpi_copy(mpi_grow(mpi_init, Len(N.p) + 1), W1),
                      N, mm, T, wsize - 1),
                  LAMBDA Wj :
             exp_table_loop([W0 EXCEPT ![j] = Wj], N, mm, T, j + 1, wsize))
        ELSE W0

\* no call under way: every local is freed
NoLoc == [TA |-> mpi_init, TU |-> mpi_init, U1 |-> mpi_init, U2 |-> mpi_init,
          TB |-> mpi_init, TV |-> mpi_init, V1 |-> mpi_init, V2 |-> mpi_init]

\* the scratch T of mpi_exp_mod: mpi_grow( &T, j * 2 ) with j = N->n + 1
exp_T(N) == mpi_grow(mpi_init, (Len(N.p) + 1) * 2)

\* mpi_exp_mod up to its while( 1 ): the checks of N and E, and then mm,
\* wsize, R^2 mod N, the table W and X = R mod N.  hasRR: the pointer _RR
\* is not NULL, and RR is then the object it points to.  go tells whether
\* the loop is entered; loc has the locals the loop reads, and in c what it
\* changes: the contents of X and nblimbs, bufsize, nbits, wbits, state.
exp_start(X, A, E, N, hasRR, RR, udbl) ==
    IF mpi_cmp_int(N, 0) < 0 \/ BitAnd(N.p[1], 1) = 0
    THEN [ret |-> POLARSSL_ERR_MPI_BAD_INPUT_DATA, go |-> FALSE,
          X |-> X, RR |-> RR, loc |-> NoLoc]
    ELSE IF mpi_cmp_int(E, 0) < 0
    THEN [ret |-> POLARSSL_ERR_MPI_BAD_INPUT_DATA, go |-> FALSE,
          X |-> X, RR |-> RR, loc |-> NoLoc]
    ELSE LET mm    == mpi_montg_init(N)
             wsize == exp_wsize(mpi_msb(E))
             j     == Len(N.p) + 1
             T     == exp_T(N)
             neg   == A.s = -1
             first == ~hasRR \/ Len(RR.p) = 0
         IN  \* compensate for negative A (and correct at the end)
             With(IF neg THEN [mpi_copy(mpi_init, A) EXCEPT !.s = 1] ELSE A,
                  LAMBDA Apos :
             \* if 1st call, pre-compute R^2 mod N
             With(IF first
                  THEN With(mpi_shift_l(mpi_lset(mpi_init, 1),
                                        Len(N.p) * 2 * biL),
                            LAMBDA R2 :
                            mpi_mod_mpi(R2, R2, N, TRUE, udbl).R)
                  ELSE RR,
                  LAMBDA RR1 :
             \* W[1] = A * R^2 * R^-1 mod N = A * R mod N
             With(mpi_montmul(
                      IF mpi_cmp_mpi(Apos, N) >= 0
                      THEN mpi_mod_mpi(mpi_grow(mpi_init, j), Apos, N, FALSE,
                                       udbl).R
                      ELSE mpi_copy(mpi_grow(mpi_init, j), Apos),
                      RR1, N, mm, T),
                  LAMBDA W1 :
             [ret |-> 0, go |-> TRUE,
              \* X = R^2 * R^-1 mod N = R mod N
              X   |-> mpi_montred(mpi_copy(mpi_grow(X, j), RR1), N, mm, T),
              RR  |-> IF hasRR THEN RR1 ELSE RR,
              loc |-> [mm |-> mm, wsize |-> wsize, neg |-> neg,
                       W |-> exp_table(W1, N, mm, T, wsize),
                       c |-> [X |-> mpi_montred(
                                        mpi_copy(mpi_grow(X, j), RR1),
                                        N, mm, T),
                              nblimbs |-> Len(E.p), bufsize |-> 0,
                              nbits |-> 0, wbits |-> 0, state |-> 0]]])))

\* the test that leaves the while( 1 ): if( bufsize == 0 ) and then
\* if( nblimbs-- == 0 ) break;
exp_window_end(c) == c.bufsize = 0 /\ c.nblimbs = 0

\* one pass of the while( 1 ) that does not leave it: one bit of E
exp_window_pass(E, N, mm, T, W, wsize, c) ==
    LET nblimbs == IF c.bufsize = 0 THEN c.nblimbs - 1 ELSE c.nblimbs
        bufsize == (IF c.bufsize = 0 THEN ciL * 8 ELSE c.bufsize) - 1
        ei      == Shr(E.p[nblimbs + 1], bufsize) % 2
        c1      == [c EXCEPT !.nblimbs = nblimbs, !.bufsize = bufsize]
    IN  IF ei = 0 /\ c.state = 0
        THEN \* skip leading 0s
             c1
        ELSE IF ei = 0 /\ c.state = 1
        THEN \* out of window, square X
             [c1 EXCEPT !.X = mpi_montmul(c.X, c.X, N, mm, T)]
        ELSE \* add ei to current window
             LET nbits == c.nbits + 1
                 wbits == BitOr(c.wbits, ei * (2 ^ (wsize - nbits)))
             IN  IF nbits = wsize
                 THEN With(mont_squares(c.X, N, mm, T, wsize), LAMBDA X1 :
                      [c1 EXCEPT
                         !.X = mpi_montmul(X1, W[wbits], N, mm, T),
                         !.state = 1, !.nbits = 0, !.wbits = 0])
                 ELSE [c1 EXCEPT !.state = 2, !.nbits = nbits,
                                 !.wbits = wbits]

\* while( 1 ), all its passes
RECURSIVE exp_window_loop(_, _, _, _, _, _, _)
exp_window_loop(E, N, mm, T, W, wsize, c) ==
    IF exp_window_end(c) THEN c
    ELSE exp_window_loop(E, N, mm, T, W, wsize,
                         exp_window_pass(E, N, mm, T, W, wsize, c))

\* for( i = 0; i < nbits; i++ ): process the remaining bits
RECURSIVE exp_rest_loop(_, _, _, _, _, _, _, _)
exp_rest_loop(X, N, mm, T, W, wsize, wbits, k) ==
    IF k = 0 THEN X
    ELSE With(mpi_montmul(X, X, N, mm, T), LAMBDA X1 :
         With(IF BitAnd(wbits * 2, 2 ^ wsize) # 0
              THEN mpi_montmul(X1, W[1], N, mm, T)
              ELSE X1,
              LAMBDA X2 :
         exp_rest_loop(X2, N, mm, T, W, wsize, wbits * 2, k - 1)))

\* mpi_exp_mod after its while( 1 ): the remaining bits, the way out of
\* the Montgomery form, and the correction for a negative A; the new
\* contents of X
exp_finish(N, l) ==
    \* X = A^E * R * R^-1 mod N = A^E mod N
    With(mpi_montred(exp_rest_loop(l.c.X, N, l.mm, exp_T(N), l.W, l.wsize,
                                   l.c.wbits, l.c.nbits),
                     N, l.mm, exp_T(N)),
         LAMBDA X1 :
    \* if( neg ) { X->s = -1; mpi_add_mpi( X, N, X ); }
    IF l.neg
    THEN mpi_add_mpi([X1 EXCEPT !.s = -1], N, [X1 EXCEPT !.s = -1],
                     FALSE, TRUE).X
    ELSE X1)

\* The result has ret, the contents of X and those of *_RR.
mpi_exp_mod(X, A, E, N, hasRR, RR, udbl) ==
    With(exp_start(X, A, E, N, hasRR, RR, udbl), LAMBDA st :
    IF ~st.go THEN [ret |-> st.ret, X |-> st.X, RR |-> st.RR]
    ELSE [ret |-> 0,
          X   |-> exp_finish(N, [st.loc EXCEPT
                      !.c = exp_window_loop(E, N, st.loc.mm, exp_T(N),
                                            st.loc.W, st.loc.wsize,
                                            st.loc.c)]),
          RR  |-> st.RR])

----------------------------------------------------------------------------
(* Greatest common divisor and modular inverse                             *)

\* one pass of while( mpi_cmp_int( &TA, 0 ) != 0 )
gcd_pass(TA, TB) ==
    With(mpi_shift_r(TA, mpi_lsb(TA)), LAMBDA TA1 :
    With(mpi_shift_r(TB, mpi_lsb(TB)), LAMBDA TB1 :
    IF mpi_cmp_mpi(TA1, TB1) >= 0
    THEN With(mpi_sub_abs(TA1, TA1, TB1, TRUE, FALSE).X, LAMBDA TA2 :
         [TA |-> mpi_shift_r(TA2, 1), TB |-> TB1])
    ELSE With(mpi_sub_abs(TB1, TB1, TA1, TRUE, FALSE).X, LAMBDA TB2 :
         [TA |-> TA1, TB |-> mpi_shift_r(TB2, 1)])))

\* while( mpi_cmp_int( &TA, 0 ) != 0 ): the value of TB when it ends
RECURSIVE gcd_loop(_, _)
gcd_loop(TA, TB) ==
    IF mpi_cmp_int(TA, 0) = 0 THEN TB
    ELSE With(gcd_pass(TA, TB), LAMBDA g : gcd_loop(g.TA, g.TB))

\* mpi_gcd up to its loop: the copies, the common power of two lz, the signs
gcd_start(A, B) ==
    With(mpi_copy(mpi_init, A), LAMBDA TA :
    With(mpi_copy(mpi_init, B), LAMBDA TB :
    \* lz = mpi_lsb( &TA ); lzt = mpi_lsb( &TB ); if( lzt < lz ) lz = lzt;
    With(mpi_lsb(TA), LAMBDA lz0 :
    With(mpi_lsb(TB), LAMBDA lzt :
    With(IF lzt < lz0 THEN lzt ELSE lz0, LAMBDA lz :
    [TA |-> [mpi_shift_r(TA, lz) EXCEPT !.s = 1],
     TB |-> [mpi_shift_r(TB, lz) EXCEPT !.s = 1],
     lz |-> lz])))))

\* mpi_gcd after its loop: TB <<= lz; copy( G, &TB )
gcd_finish(G, TB, lz) ==
    [ret |-> 0, G |-> mpi_copy(G, mpi_shift_l(TB, lz))]

mpi_gcd(G, A, B) ==
    With(gcd_start(A, B), LAMBDA g :
    With(gcd_loop(g.TA, g.TB), LAMBDA TB2 :
    gcd_finish(G, TB2, g.lz)))

\* mpi_inv_mod up to its do loop: the check of N, the gcd, the initial
\* values of the locals; go tells whether the loop is entered
inv_start(A, N, udbl) ==
    IF mpi_cmp_int(N, 0) <= 0
    THEN [ret |-> POLARSSL_ERR_MPI_BAD_INPUT_DATA, go |-> FALSE, loc |-> NoLoc]
    ELSE With(mpi_gcd(mpi_init, A, N).G, LAMBDA G :
    IF mpi_cmp_int(G, 1) # 0
    THEN [ret |-> POLARSSL_ERR_MPI_NOT_ACCEPTABLE, go |-> FALSE, loc |-> NoLoc]
    ELSE With(mpi_mod_mpi(mpi_init, A, N, FALSE, udbl).R, LAMBDA TA :
         [ret |-> 0, go |-> TRUE,
          loc |-> [TA |-> TA,
                   TU |-> mpi_copy(mpi_init, TA),
                   TB |-> mpi_copy(mpi_init, N),
                   TV |-> mpi_copy(mpi_init, N),
                   U1 |-> mpi_lset(mpi_init, 1),
                   U2 |-> mpi_lset(mpi_init, 0),
                   V1 |-> mpi_lset(mpi_init, 0),
                   V2 |-> mpi_lset(mpi_init, 1)]]))

\* one pass of while( ( TU.p[0] & 1 ) == 0 )
inv_halve_u(l) ==
    LET odd == BitAnd(l.U1.p[1], 1) # 0 \/ BitAnd(l.U2.p[1], 1) # 0
    IN  [l EXCEPT
           !.TU = mpi_shift_r(l.TU, 1),
           !.U1 = mpi_shift_r(
                      IF odd THEN mpi_add_mpi(l.U1, l.U1, l.TB, TRUE, FALSE).X
                      ELSE l.U1, 1),
           !.U2 = mpi_shift_r(
                      IF odd THEN mpi_sub_mpi(l.U2, l.U2, l.TA, TRUE, FALSE).X
                      ELSE l.U2, 1)]

\* one pass of while( ( TV.p[0] & 1 ) == 0 )
inv_halve_v(l) ==
    LET odd == BitAnd(l.V1.p[1], 1) # 0 \/ BitAnd(l.V2.p[1], 1) # 0
    IN  [l EXCEPT
           !.TV = mpi_shift_r(l.TV, 1),
           !.V1 = mpi_shift_r(
                      IF odd THEN mpi_add_mpi(l.V1, l.V1, l.TB, TRUE, FALSE).X
                      ELSE l.V1, 1),
           !.V2 = mpi_shift_r(
                      IF odd THEN mpi_sub_mpi(l.V2, l.V2, l.TA, TRUE, FALSE).X
                      ELSE l.V2, 1)]

\* if( mpi_cmp_mpi( &TU, &TV ) >= 0 ) { TU -= TV; U1 -= V1; U2 -= V2; }
\* else { TV -= TU; V1 -= U1; V2 -= U2; }
inv_subtract(l) ==
    IF mpi_cmp_mpi(l.TU, l.TV) >= 0
    THEN [l EXCEPT !.TU = mpi_sub_mpi(l.TU, l.TU, l.TV, TRUE, FALSE).X,
                   !.U1 = mpi_sub_mpi(l.U1, l.U1, l.V1, TRUE, FALSE).X,
                   !.U2 = mpi_sub_mpi(l.U2, l.U2, l.V2, TRUE, FALSE).X]
    ELSE [l EXCEPT !.TV = mpi_sub_mpi(l.TV, l.TV, l.TU, TRUE, FALSE).X,
                   !.V1 = mpi_sub_mpi(l.V1, l.V1, l.U1, TRUE, FALSE).X,
                   !.V2 = mpi_sub_mpi(l.V2, l.V2, l.U2, TRUE, FALSE).X]

\* mpi_inv_mod without the final reduction of V1
inv_finish_unreduced(X, V1, N) == mpi_copy(X, V1)

\* after the do loop: V1 is brought into [0, N) by the same two loops as in
\* mpi_mod_mpi, then copied to X
inv_finish(X, V1, N) ==
    mpi_copy(X, mod_sub_loop(mod_add_loop(V1, N), N))

----------------------------------------------------------------------------
(* Import from and export to an ASCII string                               *)
(*                                                                         *)
(* A string is the sequence of its character codes, without the NUL.       *)

\* mpi_get_digit( &d, radix, c ), as [ret, d]
mpi_get_digit(radix, c) ==
    LET d == IF c >= 48 /\ c <= 57 THEN c - 48
             ELSE IF c >= 65 /\ c <= 70 THEN c - 55
             ELSE IF c >= 97 /\ c <= 102 THEN c - 87
             ELSE 255
    IN  [ret |-> IF d >= radix THEN POLARSSL_ERR_MPI_INVALID_CHARACTER ELSE 0,
         d   |-> d]

\* for( i = slen, j = 0; i > 0; i--, j++ ) of the radix 16 branch
RECURSIVE read_hex_loop(_, _, _, _)
read_hex_loop(X, s, i, j) ==
    IF i = 0 THEN [ret |-> 0, X |-> X]
    ELSE IF i = 1 /\ s[i] = 45 THEN [ret |-> 0, X |-> [X EXCEPT !.s = -1]]
    ELSE With(mpi_get_digit(16, s[i]), LAMBDA g :
         IF g.ret # 0 THEN [ret |-> g.ret, X |-> X]
         ELSE With([X EXCEPT !.p[(j \div (2 * ciL)) + 1] =
                       BitOr(@, Shl(g.d, (j % (2 * ciL)) * 4))],
                   LAMBDA X1 :
              read_hex_loop(X1, s, i - 1, j + 1)))

\* for( i = 0; i < slen; i++ ) of the other radixes; i is 1-based, T is the
\* temporary the products go to
RECURSIVE read_dec_loop(_, _, _, _, _)
read_dec_loop(X, T, radix, s, i) ==
    IF i > Len(s) THEN [ret |-> 0, X |-> X]
    ELSE IF i = 1 /\ s[i] = 45
    THEN read_dec_loop([X EXCEPT !.s = -1], T, radix, s, i + 1)
    ELSE With(mpi_get_digit(radix, s[i]), LAMBDA g :
         IF g.ret # 0 THEN [ret |-> g.ret, X |-> X]
         ELSE With(mpi_mul_int(T, X, radix, FALSE).X, LAMBDA T1 :
              With(IF X.s = 1 THEN mpi_add_int(X, T1, g.d, FALSE).X
                   ELSE mpi_sub_int(X, T1, g.d, FALSE).X,
                   LAMBDA X1 :
              read_dec_loop(X1, T1, radix, s, i + 1))))

mpi_read_string(X, radix, s) ==
    IF radix < 2 \/ radix > 16
    THEN [ret |-> POLARSSL_ERR_MPI_BAD_INPUT_DATA, X |-> X]
    ELSE IF radix = 16
    THEN read_hex_loop(mpi_lset(mpi_grow(X, BITS_TO_LIMBS(Len(s) * 4)), 0),
                       s, Len(s), 0)
    ELSE read_dec_loop(mpi_lset(X, 0), mpi_init, radix, s, 1)

\* *p++ = c on the characters written so far
PutChar(p, c) == [k \in 1..(Len(p) + 1) |-> IF k <= Len(p) THEN p[k] ELSE c]

\* one call of mpi_write_hlp down to its recursive call, as [ret, r, X]:
\* r is the digit of this call and X what is left for the calls below
write_hlp_divide(X, radix, udbl) ==
    IF radix < 2 \/ radix > 16
    THEN [ret |-> POLARSSL_ERR_MPI_BAD_INPUT_DATA, r |-> 0, X |-> X]
    ELSE With(mpi_mod_int(0, X, radix), LAMBDA m :
         IF m.ret # 0 THEN [ret |-> m.ret, r |-> m.r, X |-> X]
         ELSE With(mpi_div_int(X, mpi_init, X, radix, TRUE, FALSE,
                               [NoAlias EXCEPT !.QisA = TRUE], udbl),
                   LAMBDA dv :
              [ret |-> dv.ret, r |-> m.r, X |-> dv.Q]))

\* the end of a call of mpi_write_hlp, after the call below has returned
write_hlp_digit(p, r) == PutChar(p, IF r < 10 THEN r + 48 ELSE r + 55)

\* "0123456789ABCDEF" [d]
HexChar(d) == IF d < 10 THEN 48 + d ELSE 55 + d

\* the two loops of the radix 16 branch, i over the limbs from the top and
\* j over the bytes of a limb from the top; k tells that a byte was written
RECURSIVE write_hex_loop(_, _, _, _, _)
write_hex_loop(X, p, i, j, k) ==
    IF i = 0 THEN p
    ELSE IF j = 0 THEN write_hex_loop(X, p, i - 1, ciL, k)
    ELSE LET c == BitAnd(Shr(X.p[i], (j - 1) * 8), 255)
         IN  IF c = 0 /\ k = 0 /\ (i + j) # 2
             THEN write_hex_loop(X, p, i, j - 1, k)
             ELSE write_hex_loop(X,
                                 PutChar(PutChar(p, HexChar(c \div 16)),
                                         HexChar(c % 16)),
                                 i, j - 1, 1)

\* mpi_write_string( X, radix, s, &slen ) up to the call of mpi_write_hlp,
\* as [ret, go, s, slen, T]: s is the characters stored from s[0] on and
\* slen the *slen; go tells that mpi_write_hlp is to be called on T
write_string_start(X, radix, slen) ==
    IF radix < 2 \/ radix > 16
    THEN [ret |-> POLARSSL_ERR_MPI_BAD_INPUT_DATA, go |-> FALSE,
          s |-> << >>, slen |-> slen, T |-> mpi_init]
    ELSE LET n0 == mpi_msb(X)
             n1 == IF radix >= 4 THEN n0 \div 2 ELSE n0
             n2 == IF radix >= 16 THEN n1 \div 2 ELSE n1
             n  == n2 + 3
             p0 == IF X.s = -1 THEN << 45 >> ELSE << >>
         IN  IF slen < n
             THEN [ret |-> POLARSSL_ERR_MPI_BUFFER_TOO_SMALL, go |-> FALSE,
                   s |-> << >>, slen |-> n, T |-> mpi_init]
             ELSE IF radix = 16
             THEN [ret |-> 0, go |-> FALSE,
                   s |-> write_hex_loop(X, p0, Len(X.p), ciL, 0),
                   slen |-> slen, T |-> mpi_init]
             ELSE [ret |-> 0, go |-> TRUE, s |-> p0, slen |-> slen,
                   T |-> [mpi_copy(mpi_init, X) EXCEPT !.s = 1]]

\* *p++ = '\0'; *slen = p - s;
write_string_finish(p) == [s |-> PutChar(p, 0), slen |-> Len(p) + 1]

----------------------------------------------------------------------------
(* Import from and export to unsigned binary data, big endian              *)
(*                                                                         *)
(* A buffer is the sequence of its bytes, buf[0] first.                    *)

CHARS_TO_LIMBS(i) == (i + ciL - 1) \div ciL

\* for( n = 0; n < buflen; n++ ) if( buf[n] != 0 ) break;   yields n
RECURSIVE read_bin_skip(_, _)
read_bin_skip(buf, n) ==
    IF n < Len(buf) /\ buf[n + 1] = 0 THEN read_bin_skip(buf, n + 1) ELSE n

\* for( i = buflen, j = 0; i > n; i--, j++ )
RECURSIVE read_bin_loop(_, _, _, _, _)
read_bin_loop(p, buf, i, j, n) ==
    IF i <= n THEN p
    ELSE read_bin_loop([p EXCEPT ![(j \div ciL) + 1] =
                           BitOr(@, Shl(buf[i], (j % ciL) * 8))],
                       buf, i - 1, j + 1, n)

mpi_read_binary(X, buf) ==
    With(read_bin_skip(buf, 0), LAMBDA n :
    With(mpi_lset(mpi_grow(X, CHARS_TO_LIMBS(Len(buf) - n)), 0), LAMBDA X1 :
    [ret |-> 0, X |-> [X1 EXCEPT !.p = read_bin_loop(@, buf, Len(buf), 0, n)]]))

mpi_size(X) == (mpi_msb(X) + 7) \div 8

\* mpi_write_binary without the loop that stores the bytes
write_bin_loop_skipped(buf, p, i, j, n) == buf

\* for( i = buflen - 1, j = 0; n > 0; --i, ++j, --n ); i is the C index
RECURSIVE write_bin_loop(_, _, _, _, _)
write_bin_loop(buf, p, i, j, n) ==
    IF n = 0 THEN buf
    ELSE write_bin_loop([buf EXCEPT ![i + 1] =
                            Shr(p[(j \div ciL) + 1], (j % ciL) * 8) % 256],
                        p, i - 1, j + 1, n - 1)

\* buf is the buffer as the caller left it, buflen is Len(buf)
mpi_write_binary(X, buf) ==
    IF Len(buf) < mpi_size(X)
    THEN [ret |-> POLARSSL_ERR_MPI_BUFFER_TOO_SMALL, buf |-> buf]
    ELSE [ret |-> 0,
          buf |-> write_bin_loop([k \in 1..Len(buf) |-> 0], X.p,
                                 Len(buf) - 1, 0, mpi_size(X))]

----------------------------------------------------------------------------
(* Primality                                                               *)

\* the compile-time ceilings of bignum.h, in bytes and in bits, scaled to
\* the one-byte limb
POLARSSL_MPI_MAX_SIZE == 2
POLARSSL_MPI_MAX_BITS == 8 * POLARSSL_MPI_MAX_SIZE

\* bytes is what f_rng wrote into buf (f_rng returned 0)
mpi_fill_random(X, size, bytes) ==
    IF size > POLARSSL_MPI_MAX_SIZE
    THEN [ret |-> POLARSSL_ERR_MPI_BAD_INPUT_DATA, X |-> X]
    ELSE mpi_read_binary(X, bytes)

\* The table of the source holds the odd primes below 1000 and ends with a
\* negative number; every entry fits in half a limb of the limb types the
\* source is built with.  The model keeps that for its one-byte limb: the
\* odd primes below 2^biH.
small_prime == << 3, 5, 7, 11, 13, -103 >>

\* for( i = 0; small_prime[i] > 0; i++ ); i is 1-based
RECURSIVE small_factors_loop(_, _)
small_factors_loop(X, i) ==
    IF small_prime[i] <= 0 THEN 0
    ELSE IF mpi_cmp_int(X, small_prime[i]) <= 0 THEN 1
    ELSE With(mpi_mod_int(0, X, small_prime[i]), LAMBDA m :
         IF m.ret # 0 THEN m.ret
         ELSE IF m.r = 0 THEN POLARSSL_ERR_MPI_NOT_ACCEPTABLE
         ELSE small_factors_loop(X, i + 1))

\* 0: no small factor, 1: certain prime, NotAcceptable: certain non-prime
mpi_check_small_factors(X) ==
    IF BitAnd(X.p[1], 1) = 0 THEN POLARSSL_ERR_MPI_NOT_ACCEPTABLE
    ELSE small_factors_loop(X, 1)

\* HAC, table 4.4: the number of rounds for i = mpi_msb( X )
mr_rounds(i) ==
    IF i >= 1300 THEN 2 ELSE IF i >= 850 THEN 3 ELSE IF i >= 650 THEN 4
    ELSE IF i >= 350 THEN 8 ELSE IF i >= 250 THEN 12
    ELSE IF i >= 150 THEN 18 ELSE 27

\* mpi_miller_rabin up to its loop: W = |X| - 1, R = W >> lsb( W ), the
\* number of rounds n; A, T and RR are the locals the rounds work on, base
\* is the base of the last round
mr_start(X) ==
    With(mpi_sub_int(mpi_init, X, 1, FALSE).X, LAMBDA W :
    With(mpi_lsb(W), LAMBDA s :
    [W |-> W, s |-> s, R |-> mpi_shift_r(mpi_copy(mpi_init, W), s),
     n |-> mr_rounds(mpi_msb(X)), i |-> 0,
     A |-> mpi_init, T |-> mpi_init, RR |-> mpi_init, base |-> mpi_init]))

\* pick a random A: fill, shift below W, A.p[0] |= 3; as [ret, A]
mr_base(A, X, W, bytes) ==
    With(mpi_fill_random(A, Len(X.p) * ciL, bytes), LAMBDA f :
    IF f.ret # 0 THEN [ret |-> f.ret, A |-> f.X]
    ELSE With(IF mpi_cmp_mpi(f.X, W) >= 0
              THEN mpi_shift_r(f.X, (mpi_msb(f.X) - mpi_msb(W)) + 1)
              ELSE f.X,
              LAMBDA A2 :
         [ret |-> 0, A |-> [A2 EXCEPT !.p[1] = BitOr(@, 3)]]))

\* while( j < s && mpi_cmp_mpi( &A, &W ) != 0 ), as [A, T]
RECURSIVE mr_square_loop(_, _, _, _, _, _, _)
mr_square_loop(A, T, X, W, j, s, udbl) ==
    IF ~(j < s /\ mpi_cmp_mpi(A, W) # 0) THEN [A |-> A, T |-> T]
    ELSE With(mpi_mul_mpi(T, A, A, FALSE, FALSE).X, LAMBDA T1 :
         With(mpi_mod_mpi(A, T1, X, FALSE, udbl).R, LAMBDA A1 :
         IF mpi_cmp_int(A1, 1) = 0 THEN [A |-> A1, T |-> T1]
         ELSE mr_square_loop(A1, T1, X, W, j + 1, s, udbl)))

\* one round of the loop of mpi_miller_rabin on the locals l, as [ret, l];
\* ret = 0 when the round says "continue"
mr_round(X, l, bytes, udbl) ==
    With(mr_base(l.A, X, l.W, bytes), LAMBDA pick :
    IF pick.ret # 0 THEN [ret |-> pick.ret, l |-> [l EXCEPT !.A = pick.A]]
    ELSE
    With(pick.A, LAMBDA base :
    \* A = A^R mod |X|
    With(mpi_exp_mod(base, base, l.R, X, TRUE, l.RR, udbl), LAMBDA x :
    IF x.ret # 0
    THEN [ret |-> x.ret, l |-> [l EXCEPT !.A = x.X, !.base = base]]
    ELSE IF mpi_cmp_mpi(x.X, l.W) = 0 \/ mpi_cmp_int(x.X, 1) = 0
    THEN [ret |-> 0,
          l |-> [l EXCEPT !.A = x.X, !.RR = x.RR, !.base = base,
                          !.i = l.i + 1]]
    ELSE With(mr_square_loop(x.X, l.T, X, l.W, 1, l.s, udbl), LAMBDA q :
         \* not prime if A != |X| - 1 or A == 1
         [ret |-> IF mpi_cmp_mpi(q.A, l.W) # 0 \/ mpi_cmp_int(q.A, 1) = 0
                  THEN POLARSSL_ERR_MPI_NOT_ACCEPTABLE ELSE 0,
          l   |-> [l EXCEPT !.A = q.A, !.T = q.T, !.RR = x.RR,
                            !.base = base, !.i = l.i + 1]]))))

\* mpi_is_prime up to the call of mpi_miller_rabin, on XX = |X|: go tells
\* whether Miller-Rabin is called
is_prime_start(X) ==
    LET XX == [X EXCEPT !.s = 1]
    IN  IF mpi_cmp_int(XX, 0) = 0 \/ mpi_cmp_int(XX, 1) = 0
        THEN [ret |-> POLARSSL_ERR_MPI_NOT_ACCEPTABLE, go |-> FALSE]
        ELSE IF mpi_cmp_int(XX, 2) = 0 THEN [ret |-> 0, go |-> FALSE]
        ELSE With(mpi_check_small_factors(XX), LAMBDA c :
             IF c # 0 THEN [ret |-> IF c = 1 THEN 0 ELSE c, go |-> FALSE]
             ELSE [ret |-> 0, go |-> TRUE])

\* mpi_gen_prime up to the search: the check of nbits, the random X forced
\* to nbits bits, X->p[0] |= 3; bytes is what f_rng wrote
gen_start(X, nbits, bytes) ==
    IF nbits < 3 \/ nbits > POLARSSL_MPI_MAX_BITS
    THEN [ret |-> POLARSSL_ERR_MPI_BAD_INPUT_DATA, go |-> FALSE, X |-> X]
    ELSE With(mpi_fill_random(X, BITS_TO_LIMBS(nbits) * ciL, bytes).X,
              LAMBDA X1 :
         With(mpi_msb(X1), LAMBDA k :
         With(IF k < nbits THEN mpi_shift_l(X1, nbits - k)
              ELSE IF k > nbits THEN mpi_shift_r(X1, k - nbits)
              ELSE X1,
              LAMBDA X2 :
         [ret |-> 0, go |-> TRUE, X |-> [X2 EXCEPT !.p[1] = BitOr(@, 3)]])))

\* the start of the dh_flag branch: X is made 2 mod 3, Y = X >> 1
gen_dh_start(X) ==
    With(mpi_mod_int(0, X, 3).r, LAMBDA r :
    With(IF r = 0 THEN mpi_add_int(X, X, 8, TRUE).X
         ELSE IF r = 1 THEN mpi_add_int(X, X, 4, TRUE).X
         ELSE X,
         LAMBDA X1 :
    [X |-> X1, Y |-> mpi_shift_r(mpi_copy(mpi_init, X1), 1)]))

\* the two small-factor checks of the dh_flag loop, as the && chain leaves
\* ret: 0 when both returned 0
gen_dh_small(X, Y) ==
    With(mpi_check_small_factors(X), LAMBDA c :
    IF c # 0 THEN c ELSE mpi_check_small_factors(Y))

----------------------------------------------------------------------------
(* The calls                                                               *)
(*                                                                         *)
(* A call is made on operands built by the library (mpi_lset, mpi_grow):   *)
(* MkMpi(v, pad) is the MPI holding v, zero with sign +1, in the fewest    *)
(* limbs plus pad zero limbs of spare capacity.                            *)

RECURSIVE NumLimbs(_)
NumLimbs(m) == IF m < LimbBase THEN 1 ELSE 1 + NumLimbs(m \div LimbBase)

MkMpi(v, pad) ==
    [s |-> IF v < 0 THEN -1 ELSE 1,
     p |-> [k \in 1..(NumLimbs(Abs(v)) + pad) |->
              (Abs(v) \div (LimbBase ^ (k - 1))) % LimbBase]]

\* an output object that still holds an earlier, longer result
Stale == [s |-> -1, p |-> << 165, 90, 60, 67 >>]

VARIABLES
    pc,     \* where the caller is: "call", a position inside the call, "done"
    op,     \* the function called
    udbl,   \* the build: TRUE when POLARSSL_HAVE_UDBL is defined
    al,     \* which input pointers the output pointer X is equal to
    A, B,   \* the const mpi_t inputs, as they are at the call
    E, N,   \* exponent and modulus
    b,      \* the t_sint input
    X,      \* the first output object (X, or Q of mpi_div_mpi)
    R,      \* the second output object
    G,      \* the output object of mpi_gcd
    r,      \* the t_uint output of mpi_mod_int
    ret,    \* the status returned
    loc,    \* the local MPIs of a call that is under way
    path,   \* which branches the call took
    nops    \* how many calls have returned before this one

vars == << pc, op, udbl, al, A, B, E, N, b, X, R, G, r, ret, loc, path,
          nops >>

\* X is a pointer of its own
Distinct == [XisA |-> FALSE, XisB |-> FALSE]

\* the MPIs of the integers of S
Mpis(S) == {MkMpi(v, 0) : v \in S}

\* S and the negatives of S
Signed(S) == S \cup {-v : v \in S}

----------------------------------------------------------------------------
(* mpi_div_mpi( Q, R, A, B ) on four distinct objects; X is Q              *)

DivDense == 20
DivNumA == 12
DivDenseB == 6
DivNumB == 3

DivA == (0..DivDense)
        \cup {1232 + ((k * 7919) % 6000) : k \in 0..DivNumA}
        \cup {134264 + (k * 1329) : k \in 0..DivNumA}

DivB == (0..DivDenseB)
        \cup {39 + (k * 39) : k \in 0..DivNumB}
        \cup {33567 + (k * 332) : k \in 0..DivNumB}

InitDiv ==
    /\ nops = 0
    /\ pc = "call" /\ op = "div_mpi"
    /\ udbl \in BOOLEAN
    /\ A \in Mpis(Signed(DivA))
    /\ \E d \in Signed(DivB), pad \in 0..1 : B = MkMpi(d, pad)
    /\ X \in {mpi_init, Stale}
    /\ R = mpi_init
    /\ al = Distinct /\ E = mpi_init /\ N = mpi_init /\ b = 0
    /\ G = mpi_init /\ r = 0 /\ ret = 0 /\ loc = NoLoc /\ path = NoPath

DivMpi ==
    /\ pc = "call" /\ op = "div_mpi"
    /\ LET d == mpi_div_mpi(X, R, A, B, TRUE, TRUE, NoAlias, udbl)
       IN  X' = d.Q /\ R' = d.R /\ ret' = d.ret /\ path' = d.path
    /\ pc' = "done"
    /\ UNCHANGED << op, udbl, al, A, B, E, N, b, G, r, loc, nops >>

NextDiv == DivMpi

SpecDiv == InitDiv /\ [][NextDiv]_vars

\* C1: when mpi_div_mpi( Q, R, A, B ) has returned: for B = 0 the status is
\* DivisionByZero; for B != 0 the status is 0, A = Q * B + R as integers and
\* |R| < |B|.
C1_QuotientRemainder ==
    (pc = "done" /\ op = "div_mpi") =>
        IF Value(B) = 0 THEN ret = POLARSSL_ERR_MPI_DIVISION_BY_ZERO
        ELSE /\ ret = 0
             /\ Value(A) = (Value(X) * Value(B)) + Value(R)
             /\ Abs(Value(R)) < Abs(Value(B))

\* what the build with the other quotient-digit estimator gives on the
\* operands of the call
DivOtherBuild ==
    mpi_div_mpi(mpi_init, mpi_init, A, B, TRUE, TRUE, NoAlias, ~udbl)

\* C23: the double-word divide and the half-limb long division give the
\* same Q and R from mpi_div_mpi, for every A and every B != 0, on the
\* divisor limbs the normalization of the function produces.
C23_EstimatorsAgree ==
    (pc = "done" /\ op = "div_mpi" /\ Value(B) # 0) =>
        /\ ret = DivOtherBuild.ret
        /\ Value(X) = Value(DivOtherBuild.Q) /\ X.s = DivOtherBuild.Q.s
        /\ Value(R) = Value(DivOtherBuild.R) /\ R.s = DivOtherBuild.R.s

\* C24: in the long division, the normalization shifts the copies of A and
\* B left by k bits, 0 <= k < biL, after which the highest bit of the top
\* limb of the divisor is set, for every B != 0; the right shift of the
\* remainder by k at the end gives the remainder of A by B.
C24_Normalized ==
    (pc = "done" /\ op = "div_mpi" /\ Value(B) # 0 /\ ~path.fast) =>
        /\ path.k \in 0..(biL - 1)
        /\ path.ytop >= LimbBase \div 2
        /\ Abs(Value(R)) = Abs(Value(A)) % Abs(Value(B))

----------------------------------------------------------------------------
(* mpi_exp_mod( X, A, E, N, NULL )                                         *)

ExpMaxA == 6
ExpMaxE == 5
ExpBigE == 1
ExpMaxN == 9

ExpA == (0..ExpMaxA) \cup {LimbBase - 1, LimbBase, (LimbBase ^ 2) + 3}

\* LimbBase ^ 3 and above have more than 23 bits: the window is 3 bits wide
ExpE == (-1..ExpMaxE) \cup {LimbBase + 1}
        \cup {(LimbBase ^ 3) + k : k \in 0..ExpBigE}

\* the 2-limb moduli stay below 2^15, so that the products of PowMod are
\* below 2^31
ExpN == (-1..ExpMaxN)
        \cup {LimbBase - 1, LimbBase + 1, ((LimbBase ^ 2) \div 2) - 1}

InitExp ==
    /\ nops = 0
    /\ pc = "call" /\ op = "exp_mod"
    /\ udbl \in BOOLEAN
    /\ A \in Mpis(Signed(ExpA))
    /\ E \in Mpis(ExpE)
    /\ N \in Mpis(ExpN)
    /\ X \in {mpi_init, Stale}
    /\ B = mpi_init /\ R = mpi_init
    /\ al = Distinct /\ b = 0
    /\ G = mpi_init /\ r = 0 /\ ret = 0 /\ loc = NoLoc /\ path = NoPath

ExpStart ==
    /\ pc = "call" /\ op = "exp_mod"
    /\ LET st == exp_start(X, A, E, N, FALSE, mpi_init, udbl)
       IN  /\ X' = st.X /\ ret' = st.ret /\ loc' = st.loc
           /\ pc' = IF st.go THEN "exp_window" ELSE "done"
    /\ UNCHANGED << op, udbl, al, A, B, E, N, b, R, G, r, path, nops >>

ExpWindow ==
    /\ pc = "exp_window" /\ ~exp_window_end(loc.c)
    /\ LET c == exp_window_pass(E, N, loc.mm, exp_T(N), loc.W, loc.wsize,
                                loc.c)
       IN  X' = c.X /\ loc' = [loc EXCEPT !.c = c]
    /\ UNCHANGED << pc, op, udbl, al, A, B, E, N, b, R, G, r, ret, path, nops >>

ExpFinish ==
    /\ pc = "exp_window" /\ exp_window_end(loc.c)
    /\ X' = exp_finish(N, loc)
    /\ loc' = NoLoc
    /\ pc' = "done"
    /\ UNCHANGED << op, udbl, al, A, B, E, N, b, R, G, r, ret, path, nops >>

NextExp == ExpStart \/ ExpWindow \/ ExpFinish

SpecExp == InitExp /\ [][NextExp]_vars

\* the call the contract of mpi_exp_mod is about: N odd and positive, E >= 0
ExpInContract ==
    /\ pc = "done" /\ op = "exp_mod"
    /\ Value(N) > 0 /\ Value(N) % 2 = 1 /\ Value(E) >= 0

\* C2: for every odd N > 0, every E >= 0 and every signed base A, positive,
\* zero or negative, mpi_exp_mod returns 0 and X is congruent to A^E
\* modulo N.
C2_Congruent ==
    ExpInContract =>
        /\ ret = 0
        /\ (Value(X) - PowMod(Value(A), Value(E), Value(N))) % Value(N) = 0

\* C3: for every odd N > 0, every E >= 0 and every signed base A, negative
\* bases and multiples of N included, a successful mpi_exp_mod leaves
\* 0 <= X < N.
C3_InRange ==
    (ExpInContract /\ ret = 0) => (0 <= Value(X) /\ Value(X) < Value(N))

----------------------------------------------------------------------------
(* mpi_inv_mod( X, A, N ), one action per pass of its loops                *)

InvMaxA == 12
InvMaxN == 12

InvA == (0..InvMaxA) \cup {LimbBase + 3}

InvN == (-1..InvMaxN) \cup {LimbBase + 1}

InitInv ==
    /\ nops = 0
    /\ pc = "call" /\ op = "inv_mod"
    /\ udbl \in BOOLEAN
    /\ A \in Mpis(Signed(InvA))
    /\ N \in Mpis(InvN)
    /\ X \in {mpi_init, Stale}
    /\ B = mpi_init /\ E = mpi_init /\ R = mpi_init
    /\ al = Distinct /\ b = 0
    /\ G = mpi_init /\ r = 0 /\ ret = 0 /\ loc = NoLoc /\ path = NoPath

InvStart ==
    /\ pc = "call" /\ op = "inv_mod"
    /\ LET st == inv_start(A, N, udbl)
       IN  /\ ret' = st.ret /\ loc' = st.loc
           /\ pc' = IF st.go THEN "inv_u" ELSE "done"
    /\ UNCHANGED << op, udbl, al, A, B, E, N, b, X, R, G, r, path, nops >>

\* while( ( TU.p[0] & 1 ) == 0 ): the body
InvHalveU ==
    /\ pc = "inv_u" /\ BitAnd(loc.TU.p[1], 1) = 0
    /\ loc' = inv_halve_u(loc)
    /\ UNCHANGED << pc, op, udbl, al, A, B, E, N, b, X, R, G, r, ret, path,
                 nops >>

\* while( ( TU.p[0] & 1 ) == 0 ): the way out
InvUOdd ==
    /\ pc = "inv_u" /\ BitAnd(loc.TU.p[1], 1) # 0
    /\ pc' = "inv_v"
    /\ UNCHANGED << op, udbl, al, A, B, E, N, b, X, R, G, r, ret, loc, path,
                 nops >>

\* while( ( TV.p[0] & 1 ) == 0 ): the body
InvHalveV ==
    /\ pc = "inv_v" /\ BitAnd(loc.TV.p[1], 1) = 0
    /\ loc' = inv_halve_v(loc)
    /\ UNCHANGED << pc, op, udbl, al, A, B, E, N, b, X, R, G, r, ret, path,
                 nops >>

\* the subtraction and the test of the do loop, while( TU != 0 ); when it
\* fails, the rest of the function
InvSubtract ==
    /\ pc = "inv_v" /\ BitAnd(loc.TV.p[1], 1) # 0
    /\ LET l == inv_subtract(loc)
       IN  IF mpi_cmp_int(l.TU, 0) # 0
           THEN loc' = l /\ pc' = "inv_u" /\ X' = X
           ELSE loc' = NoLoc /\ pc' = "done" /\ X' = inv_finish(X, l.V1, N)
    /\ UNCHANGED << op, udbl, al, A, B, E, N, b, R, G, r, ret, path, nops >>

NextInv == InvStart \/ InvHalveU \/ InvUOdd \/ InvHalveV \/ InvSubtract

SpecInv == InitInv /\ [][NextInv]_vars

\* the call runs on its thread until it returns: a step that can be taken
\* is taken.  InvStart can be taken exactly when pc = "call", so weak
\* fairness of InvStart is written as "pc does not stay at call".
SpecInvFair ==
    /\ InitInv /\ [][NextInv]_vars
    /\ []<>(pc # "call")
    /\ WF_vars(InvHalveU \/ InvUOdd \/ InvHalveV \/ InvSubtract)

\* C4: for every A and every N > 0, mpi_inv_mod returns 0 only with X in
\* [0, N) and (A * X) mod N = 1, and it returns NotAcceptable exactly when
\* gcd(A, N) # 1; for N <= 0 it returns BadInput.
C4_Inverse ==
    (pc = "done" /\ op = "inv_mod") =>
        IF Value(N) <= 0 THEN ret = POLARSSL_ERR_MPI_BAD_INPUT_DATA
        ELSE /\ ret \in {0, POLARSSL_ERR_MPI_NOT_ACCEPTABLE}
             /\ ret = 0 => /\ 0 <= Value(X) /\ Value(X) < Value(N)
                           /\ (Value(A) * Value(X)) % Value(N) = 1
             /\ ret = POLARSSL_ERR_MPI_NOT_ACCEPTABLE
                    <=> Euclid(Abs(Value(A)), Value(N)) # 1

\* inv_mod(3, 11) has returned 4
C4_Witness ==
    /\ pc = "done" /\ op = "inv_mod" /\ ret = 0
    /\ Value(A) = 3 /\ Value(N) = 11 /\ Value(X) = 4

\* mpi_inv_mod has been called with N > 0
inv_called == pc = "call" /\ op = "inv_mod" /\ Value(N) > 0

\* C5: mpi_inv_mod returns for every A and every N > 0, N = 1 and A
\* congruent to 0 modulo N included.
C5_Terminates == inv_called ~> (pc = "done")

----------------------------------------------------------------------------
(* mpi_gcd( G, A, B )                                                      *)

GcdDense == 12

GcdVals == (0..GcdDense)
           \cup {693, 609, 1764, 868, LimbBase, (LimbBase ^ 2) - 1,
                 LimbBase ^ 2}

InitGcd ==
    /\ nops = 0
    /\ pc = "call" /\ op = "gcd"
    /\ udbl \in BOOLEAN
    /\ A \in Mpis(Signed(GcdVals))
    /\ B \in Mpis(Signed(GcdVals))
    /\ G \in {mpi_init, Stale}
    /\ X = mpi_init /\ R = mpi_init /\ E = mpi_init /\ N = mpi_init
    /\ al = Distinct /\ b = 0
    /\ r = 0 /\ ret = 0 /\ loc = NoLoc /\ path = NoPath

GcdStart ==
    /\ pc = "call" /\ op = "gcd"
    /\ loc' = gcd_start(A, B)
    /\ pc' = "gcd_loop"
    /\ UNCHANGED << op, udbl, al, A, B, E, N, b, X, R, G, r, ret, path, nops >>

\* while( mpi_cmp_int( &TA, 0 ) != 0 ): the body
GcdPass ==
    /\ pc = "gcd_loop" /\ mpi_cmp_int(loc.TA, 0) # 0
    /\ loc' = With(gcd_pass(loc.TA, loc.TB), LAMBDA g :
                [TA |-> g.TA, TB |-> g.TB, lz |-> loc.lz])
    /\ UNCHANGED << pc, op, udbl, al, A, B, E, N, b, X, R, G, r, ret, path,
                 nops >>

\* while( mpi_cmp_int( &TA, 0 ) != 0 ): the way out, and the rest
GcdFinish ==
    /\ pc = "gcd_loop" /\ mpi_cmp_int(loc.TA, 0) = 0
    /\ LET g == gcd_finish(G, loc.TB, loc.lz)
       IN  G' = g.G /\ ret' = g.ret
    /\ pc' = "done" /\ loc' = NoLoc
    /\ UNCHANGED << op, udbl, al, A, B, E, N, b, X, R, r, path, nops >>

NextGcd == GcdStart \/ GcdPass \/ GcdFinish

SpecGcd == InitGcd /\ [][NextGcd]_vars

\* C6: for all signed A and B, zero operands included, mpi_gcd returns
\* G = gcd(|A|, |B|) as Euclid defines it, so gcd(A, 0) = |A| and
\* gcd(0, B) = |B|, with G.sign = +1.
C6_Gcd ==
    (pc = "done" /\ op = "gcd") =>
        /\ ret = 0 /\ G.s = 1
        /\ Value(G) = Euclid(Abs(Value(A)), Abs(Value(B)))

----------------------------------------------------------------------------
(* mpi_mod_mpi( R, A, B ) and mpi_mod_int( r, A, b )                       *)

ModDense == 12
ModNum == 4
ModDenseB == 6
ModIntMin == 2

\* the largest t_sint
SintMax == (LimbBase \div 2) - 1

ModA == (0..ModDense)
        \cup {LimbBase - 1 + k : k \in 0..ModNum}
        \cup {1232 + (k * 977) : k \in 0..ModNum}
        \cup {(LimbBase ^ 2) - 2 + k : k \in 0..ModNum}

ModB == (0..ModDenseB)
        \cup {39, LimbBase - 1, LimbBase, LimbBase + 1, 33567}

InitMod ==
    /\ nops = 0
    /\ pc = "call"
    /\ udbl \in BOOLEAN
    /\ A \in Mpis(Signed(ModA))
    /\ \/ /\ op = "mod_mpi"
          /\ \E d \in Signed(ModB), pad \in 0..1 : B = MkMpi(d, pad)
          /\ R \in {mpi_init, Stale}
          /\ b = 0
       \/ /\ op = "mod_int"
          /\ b \in (-ModIntMin)..SintMax
          /\ B = mpi_init /\ R = mpi_init
    /\ X = mpi_init /\ E = mpi_init /\ N = mpi_init
    /\ al = Distinct
    /\ G = mpi_init /\ r = 0 /\ ret = 0 /\ loc = NoLoc /\ path = NoPath

ModMpi ==
    /\ pc = "call" /\ op = "mod_mpi"
    /\ LET m == mpi_mod_mpi(R, A, B, FALSE, udbl)
       IN  R' = m.R /\ ret' = m.ret
    /\ pc' = "done"
    /\ UNCHANGED << op, udbl, al, A, B, E, N, b, X, G, r, loc, path, nops >>

ModInt ==
    /\ pc = "call" /\ op = "mod_int"
    /\ LET m == mpi_mod_int(r, A, b)
       IN  r' = m.r /\ ret' = m.ret
    /\ pc' = "done"
    /\ UNCHANGED << op, udbl, al, A, B, E, N, b, X, R, G, loc, path, nops >>

NextMod == ModMpi \/ ModInt

SpecMod == InitMod /\ [][NextMod]_vars

\* C7: for every signed A and every B > 0, mpi_mod_mpi returns 0 with R in
\* [0, B) and R congruent to A modulo B; for B < 0 it returns NegativeValue
\* and for B = 0 DivisionByZero.
C7_ModMpi ==
    (pc = "done" /\ op = "mod_mpi") =>
        IF Value(B) < 0 THEN ret = POLARSSL_ERR_MPI_NEGATIVE_VALUE
        ELSE IF Value(B) = 0 THEN ret = POLARSSL_ERR_MPI_DIVISION_BY_ZERO
        ELSE /\ ret = 0
             /\ 0 <= Value(R) /\ Value(R) < Value(B)
             /\ (Value(A) - Value(R)) % Value(B) = 0

\* a negative multi-limb A whose remainder had to be brought up into
\* [0, B), with the half-limb estimator
C7_Witness ==
    /\ pc = "done" /\ op = "mod_mpi" /\ ret = 0 /\ ~udbl
    /\ Value(A) = -1232 /\ Value(B) = 39 /\ Value(R) = 16

\* C8: for every signed A and every scalar b with 0 < b <= the largest
\* t_sint, b >= 2^(biL/2) and the fast paths b = 1 and b = 2 included,
\* mpi_mod_int returns 0 with r in [0, b) and r congruent to A modulo b;
\* b = 0 gives DivisionByZero and b < 0 NegativeValue.
C8_ModInt ==
    (pc = "done" /\ op = "mod_int") =>
        IF b = 0 THEN ret = POLARSSL_ERR_MPI_DIVISION_BY_ZERO
        ELSE IF b < 0 THEN ret = POLARSSL_ERR_MPI_NEGATIVE_VALUE
        ELSE /\ ret = 0
             /\ 0 <= r /\ r < b
             /\ (Value(A) - r) % b = 0

----------------------------------------------------------------------------
(* mpi_add_mpi, mpi_sub_mpi and mpi_add_abs                                *)
(*                                                                         *)
(* After X = A + B the caller computes R = B + A, and after X = A - B it   *)
(* computes R = X + B.  mpi_add_abs is called with X a pointer of its own, *)
(* or equal to A, to B, or to both; A and B keep the operands as they are  *)
(* at the call.                                                            *)

AddDense == 5
AddLimbs == 2
AddNear == 2

AddVals == (0..AddDense)
           \cup {(LimbBase ^ k) + d : k \in 1..AddLimbs,
                                      d \in (-AddNear)..AddNear}

InitAdd ==
    /\ nops = 0
    /\ pc = "call"
    /\ udbl \in BOOLEAN
    /\ \E pad \in 0..1, v \in Signed(AddVals) : A = MkMpi(v, pad)
    /\ B \in Mpis(Signed(AddVals))
    /\ \/ /\ op \in {"add_mpi", "sub_mpi"}
          /\ al = Distinct
          /\ X \in {mpi_init, Stale}
       \/ /\ op = "add_abs"
          /\ al \in [XisA : BOOLEAN, XisB : BOOLEAN]
          /\ al.XisA /\ al.XisB => A = B
          /\ X \in IF al.XisA THEN {A}
                   ELSE IF al.XisB THEN {B}
                   ELSE {mpi_init, Stale}
    /\ R = mpi_init /\ E = mpi_init /\ N = mpi_init /\ b = 0
    /\ G = mpi_init /\ r = 0 /\ ret = 0 /\ loc = NoLoc /\ path = NoPath

AddMpi ==
    /\ pc = "call" /\ op = "add_mpi"
    /\ LET a == mpi_add_mpi(X, A, B, FALSE, FALSE)
       IN  X' = a.X /\ ret' = a.ret
    /\ pc' = "back"
    /\ UNCHANGED << op, udbl, al, A, B, E, N, b, R, G, r, loc, path, nops >>

\* R = B + A
AddSwapped ==
    /\ pc = "back" /\ op = "add_mpi"
    /\ LET a == mpi_add_mpi(R, B, A, FALSE, FALSE)
       IN  R' = a.X /\ ret' = a.ret
    /\ pc' = "done"
    /\ UNCHANGED << op, udbl, al, A, B, E, N, b, X, G, r, loc, path, nops >>

SubMpi ==
    /\ pc = "call" /\ op = "sub_mpi"
    /\ LET a == mpi_sub_mpi(X, A, B, FALSE, FALSE)
       IN  X' = a.X /\ ret' = a.ret
    /\ pc' = "back"
    /\ UNCHANGED << op, udbl, al, A, B, E, N, b, R, G, r, loc, path, nops >>

\* R = ( A - B ) + B
SubAddBack ==
    /\ pc = "back" /\ op = "sub_mpi"
    /\ LET a == mpi_add_mpi(R, X, B, FALSE, FALSE)
       IN  R' = a.X /\ ret' = a.ret
    /\ pc' = "done"
    /\ UNCHANGED << op, udbl, al, A, B, E, N, b, X, G, r, loc, path, nops >>

AddAbs ==
    /\ pc = "call" /\ op = "add_abs"
    /\ LET a == mpi_add_abs(X, A, B, al.XisA, al.XisB)
       IN  X' = a.X /\ ret' = a.ret
    /\ pc' = "done"
    /\ UNCHANGED << op, udbl, al, A, B, E, N, b, R, G, r, loc, path, nops >>

NextAdd == AddMpi \/ AddSwapped \/ SubMpi \/ SubAddBack \/ AddAbs

SpecAdd == InitAdd /\ [][NextAdd]_vars

\* C9: for all signed A and B, X a distinct object, mpi_add_mpi leaves X
\* with the value A + B and mpi_sub_mpi leaves X with the value A - B, also
\* when the carry goes into a newly grown limb and when a borrow ripples
\* across limbs; so B + A is the same value as A + B, and (A - B) + B is A.
C9_AddSub ==
    /\ (op = "add_mpi" /\ pc \in {"back", "done"}) =>
           (ret = 0 /\ Value(X) = Value(A) + Value(B))
    /\ (op = "add_mpi" /\ pc = "done") => Value(R) = Value(X)
    /\ (op = "sub_mpi" /\ pc \in {"back", "done"}) =>
           (ret = 0 /\ Value(X) = Value(A) - Value(B))
    /\ (op = "sub_mpi" /\ pc = "done") => Value(R) = Value(A)

\* the borrow of LimbBase^2 - 1 ripples across two limbs, and adding 1 back
\* carries into the limb that R had to grow
C9_Witness ==
    /\ op = "sub_mpi" /\ pc = "done" /\ ret = 0
    /\ Value(A) = LimbBase ^ 2 /\ Value(B) = 1
    /\ Value(X) = (LimbBase ^ 2) - 1 /\ Value(R) = LimbBase ^ 2
    /\ Len(R.p) = 3

\* C10: mpi_add_abs( X, A, B ) leaves X = |A| + |B| for every aliasing of
\* the output with the inputs: X == A, X == B, and X == A == B.
C10_AddAbsAliased ==
    (pc = "done" /\ op = "add_abs") =>
        (ret = 0 /\ Value(X) = Abs(Value(A)) + Abs(Value(B)))

----------------------------------------------------------------------------
(* mpi_mul_mpi( X, A, B ), X distinct or the same object as A, B or both;  *)
(* the product with the operands exchanged; A * ( B + C ) against          *)
(* A * B + A * C, with C held in E                                         *)

MulDense == 3

\* the last value is the largest whose products stay below 2^31
MulVals == (0..MulDense)
           \cup {LimbBase - 1, LimbBase, LimbBase + 1,
                 ((LimbBase ^ 2) \div 2) - 1}

InitMul ==
    /\ nops = 0
    /\ pc = "call"
    /\ udbl \in BOOLEAN
    /\ \E pad \in 0..1, v \in Signed(MulVals) : A = MkMpi(v, pad)
    /\ B \in Mpis(Signed(MulVals))
    /\ \/ /\ op = "mul_mpi"
          /\ al \in [XisA : BOOLEAN, XisB : BOOLEAN]
          /\ al.XisA /\ al.XisB => A = B
          /\ X \in IF al.XisA THEN {A}
                   ELSE IF al.XisB THEN {B}
                   ELSE {mpi_init, Stale}
          /\ E = mpi_init
       \/ /\ op = "mul_dist"
          /\ al = Distinct
          /\ X \in {mpi_init, Stale}
          /\ E \in Mpis(Signed(MulVals))
    /\ R = mpi_init /\ N = mpi_init /\ b = 0
    /\ G = mpi_init /\ r = 0 /\ ret = 0 /\ loc = NoLoc /\ path = NoPath

MulMpi ==
    /\ pc = "call" /\ op = "mul_mpi"
    /\ LET m == mpi_mul_mpi(X, A, B, al.XisA, al.XisB)
       IN  X' = m.X /\ ret' = m.ret
    /\ pc' = "back"
    /\ UNCHANGED << op, udbl, al, A, B, E, N, b, R, G, r, loc, path, nops >>

\* R = B * A, on distinct objects
MulSwapped ==
    /\ pc = "back" /\ op = "mul_mpi"
    /\ LET m == mpi_mul_mpi(R, B, A, FALSE, FALSE)
       IN  R' = m.X /\ ret' = m.ret
    /\ pc' = "done"
    /\ UNCHANGED << op, udbl, al, A, B, E, N, b, X, G, r, loc, path, nops >>

\* R = B + C; X = A * R
MulDistLeft ==
    /\ pc = "call" /\ op = "mul_dist"
    /\ LET a == mpi_add_mpi(R, B, E, FALSE, FALSE)
           m == mpi_mul_mpi(X, A, a.X, FALSE, FALSE)
       IN  R' = a.X /\ X' = m.X /\ ret' = m.ret
    /\ pc' = "back"
    /\ UNCHANGED << op, udbl, al, A, B, E, N, b, G, r, loc, path, nops >>

\* G = A * B; N = A * C; R = G + N
MulDistRight ==
    /\ pc = "back" /\ op = "mul_dist"
    /\ LET m1 == mpi_mul_mpi(G, A, B, FALSE, FALSE)
           m2 == mpi_mul_mpi(N, A, E, FALSE, FALSE)
           a  == mpi_add_mpi(R, m1.X, m2.X, FALSE, FALSE)
       IN  G' = m1.X /\ N' = m2.X /\ R' = a.X /\ ret' = a.ret
    /\ pc' = "done"
    /\ UNCHANGED << op, udbl, al, A, B, E, b, X, r, loc, path, nops >>

NextMul == MulMpi \/ MulSwapped \/ MulDistLeft \/ MulDistRight

SpecMul == InitMul /\ [][NextMul]_vars

\* C11: for all signed A and B, mpi_mul_mpi leaves X with the value A * B
\* and the sign A.sign * B.sign, also when X is the same object as A, as B
\* or as both; so B * A is the same value as A * B, and A * (B + C) is the
\* same value as A * B + A * C.
C11_Mul ==
    /\ (op = "mul_mpi" /\ pc \in {"back", "done"}) =>
           /\ ret = 0
           /\ Value(X) = Value(A) * Value(B)
           /\ X.s = A.s * B.s
    /\ (op = "mul_mpi" /\ pc = "done") => Value(R) = Value(X)
    /\ (op = "mul_dist" /\ pc \in {"back", "done"}) =>
           Value(X) = Value(A) * (Value(B) + Value(E))
    /\ (op = "mul_dist" /\ pc = "done") =>
           (ret = 0 /\ Value(R) = Value(X))

\* a negative two-limb number has been squared in place, every row of the
\* product carrying into the next limb
C11_Witness ==
    /\ op = "mul_mpi" /\ pc = "done" /\ ret = 0
    /\ al.XisA /\ al.XisB
    /\ Value(A) = 1 - ((LimbBase ^ 2) \div 2)
    /\ Value(X) = Value(A) * Value(A) /\ X.s = 1
    /\ Len(X.p) = 4

----------------------------------------------------------------------------
(* Sequences of public operations on the objects X, A and R.  Every        *)
(* operation takes the current X (and A) as input; the arithmetic ones      *)
(* write to fresh output objects, which the caller then calls X (and R).    *)

SeqMaxOps == 3
SeqMaxInt == 2

SeqInts == (-SeqMaxInt)..SeqMaxInt

\* shift counts: inside a limb, a whole limb, more than a limb
SeqShifts == {1, biL, biL + 1}

\* "-0", "0", "-1", "7", "1f", "-a"
SeqStrings == {<< 45, 48 >>, << 48 >>, << 45, 49 >>, << 55 >>,
               << 49, 102 >>, << 45, 97 >>}

SeqRadixes == {10, 16}

\* exponents and moduli for mpi_exp_mod
SeqExps == Mpis(0..2)
SeqMods == Mpis({3, 5})

InitSeq ==
    /\ nops = 0
    /\ pc = "call" /\ op = "seq"
    /\ udbl \in BOOLEAN
    /\ X \in Mpis(SeqInts)
    /\ A \in Mpis(SeqInts)
    /\ R = mpi_init
    /\ B = mpi_init /\ E = mpi_init /\ N = mpi_init
    /\ al = Distinct /\ b = 0
    /\ G = mpi_init /\ r = 0 /\ ret = 0 /\ loc = NoLoc /\ path = NoPath

\* the caller makes one more call
SeqCall ==
    /\ pc = "call" /\ op = "seq" /\ nops < SeqMaxOps
    /\ nops' = nops + 1
    /\ UNCHANGED << pc, op, udbl, al, A, B, E, N, b, G, r, loc, path >>

SeqLset ==
    /\ SeqCall
    /\ \E z \in SeqInts : X' = mpi_lset(X, z)
    /\ ret' = 0 /\ R' = R

SeqAddMpi ==
    /\ SeqCall
    /\ LET a == mpi_add_mpi(mpi_init, X, A, FALSE, FALSE)
       IN  X' = a.X /\ ret' = a.ret
    /\ R' = R

SeqSubMpi ==
    /\ SeqCall
    /\ LET a == mpi_sub_mpi(mpi_init, X, A, FALSE, FALSE)
       IN  X' = a.X /\ ret' = a.ret
    /\ R' = R

SeqMulMpi ==
    /\ SeqCall
    /\ LET m == mpi_mul_mpi(mpi_init, X, A, FALSE, FALSE)
       IN  X' = m.X /\ ret' = m.ret
    /\ R' = R

SeqMulInt ==
    /\ SeqCall
    /\ \E z \in 0..SeqMaxInt :
          LET m == mpi_mul_int(mpi_init, X, z, FALSE)
          IN  X' = m.X /\ ret' = m.ret
    /\ R' = R

SeqDivMpi ==
    /\ SeqCall
    /\ LET d == mpi_div_mpi(mpi_init, mpi_init, X, A, TRUE, TRUE, NoAlias,
                            udbl)
       IN  /\ ret' = d.ret
           /\ X' = IF d.ret = 0 THEN d.Q ELSE X
           /\ R' = IF d.ret = 0 THEN d.R ELSE R

SeqShiftL ==
    /\ SeqCall
    /\ \E k \in SeqShifts : X' = mpi_shift_l(X, k)
    /\ ret' = 0 /\ R' = R

SeqShiftR ==
    /\ SeqCall
    /\ \E k \in SeqShifts : X' = mpi_shift_r(X, k)
    /\ ret' = 0 /\ R' = R

SeqReadString ==
    /\ SeqCall
    /\ \E radix \in SeqRadixes, s \in SeqStrings :
          LET rd == mpi_read_string(X, radix, s)
          IN  X' = rd.X /\ ret' = rd.ret
    /\ R' = R

SeqExpMod ==
    /\ SeqCall
    /\ \E e \in SeqExps, n \in SeqMods :
          LET x == mpi_exp_mod(mpi_init, X, e, n, FALSE, mpi_init, udbl)
          IN  X' = x.X /\ ret' = x.ret
    /\ R' = R

NextSeq ==
    \/ SeqLset \/ SeqAddMpi \/ SeqSubMpi \/ SeqMulMpi \/ SeqMulInt
    \/ SeqDivMpi \/ SeqShiftL \/ SeqShiftR \/ SeqReadString \/ SeqExpMod

SpecSeq == InitSeq /\ [][NextSeq]_vars

\* C12: after any sequence of public operations on MPIs that start with
\* zero having sign +1, every MPI that is zero has sign +1.
C12_ZeroPositive ==
    (op = "seq") =>
        \A M \in {X, A, R} : (mpi_cmp_int(M, 0) = 0) => (M.s = 1)

----------------------------------------------------------------------------
(* mpi_is_prime( X, f_rng, p_rng ), one action per Miller-Rabin round;     *)
(* loc holds the locals of mpi_miller_rabin                                *)

RngDense == 1
IsPrimeMax == 23

\* the bytes f_rng may write: the lowest, some in the range of the numbers
\* tested, the highest
RngByte == (0..RngDense) \cup ((2 ^ biH)..((2 ^ biH) + RngDense))
           \cup {LimbBase - 1}

\* the buffers of size bytes f_rng may fill; mpi_fill_random does not call
\* it for a size above POLARSSL_MPI_MAX_SIZE
Rng(size) ==
    IF size = 0 \/ size > POLARSSL_MPI_MAX_SIZE THEN {<< >>}
    ELSE IF size = 1 THEN {<< x >> : x \in RngByte}
    ELSE {<< h, x >> : h \in {0, 1}, x \in RngByte}

\* n has no divisor between 1 and n
IsPrimeNumber(n) == n > 1 /\ \A d \in 2..(n - 1) : n % d # 0

InitPrime ==
    /\ nops = 0
    /\ pc = "call" /\ op = "is_prime"
    /\ udbl \in BOOLEAN
    /\ \E pad \in 0..1, v \in Signed(0..IsPrimeMax) : X = MkMpi(v, pad)
    /\ A = mpi_init /\ B = mpi_init /\ E = mpi_init /\ N = mpi_init
    /\ R = mpi_init /\ al = Distinct /\ b = 0
    /\ G = mpi_init /\ r = 0 /\ ret = 0 /\ loc = NoLoc /\ path = NoPath

IsPrimeCall ==
    /\ pc = "call" /\ op = "is_prime"
    /\ LET st == is_prime_start(X)
       IN  IF st.go
           THEN /\ pc' = "mr" /\ ret' = ret
                /\ loc' = mr_start([X EXCEPT !.s = 1])
           ELSE pc' = "done" /\ ret' = st.ret /\ loc' = loc
    /\ UNCHANGED << op, udbl, al, A, B, E, N, b, X, R, G, r, path, nops >>

\* for( i = 0; i < n; i++ ): one round, which either says "continue" or
\* ends the loop with a status
IsPrimeRound ==
    /\ pc = "mr" /\ op = "is_prime" /\ loc.i < loc.n
    /\ \E bytes \in Rng(Len(X.p) * ciL) :
          LET rd == mr_round([X EXCEPT !.s = 1], loc, bytes, udbl)
          IN  IF rd.ret = 0
              THEN pc' = pc /\ ret' = ret /\ loc' = rd.l
              ELSE pc' = "done" /\ ret' = rd.ret /\ loc' = NoLoc
    /\ UNCHANGED << op, udbl, al, A, B, E, N, b, X, R, G, r, path, nops >>

\* all the rounds said "continue"
IsPrimeAccept ==
    /\ pc = "mr" /\ op = "is_prime" /\ loc.i = loc.n
    /\ pc' = "done" /\ ret' = 0 /\ loc' = NoLoc
    /\ UNCHANGED << op, udbl, al, A, B, E, N, b, X, R, G, r, path, nops >>

NextPrime == IsPrimeCall \/ IsPrimeRound \/ IsPrimeAccept

SpecPrime == InitPrime /\ [][NextPrime]_vars

\* C13: for every X whose absolute value is prime and every sequence of
\* bytes the RNG returns, mpi_is_prime returns 0; every base A of a
\* Miller-Rabin round satisfies 1 < A < |X| - 1.
C13_PrimeAccepted ==
    /\ (pc = "done" /\ op = "is_prime" /\ IsPrimeNumber(Abs(Value(X))))
           => ret = 0
    /\ (pc = "mr" /\ op = "is_prime" /\ loc.i > 0)
           => (1 < Value(loc.base) /\ Value(loc.base) < Value(loc.W))

----------------------------------------------------------------------------
(* mpi_gen_prime( X, nbits, dh_flag, f_rng, p_rng ): nbits is held in b,   *)
(* Y in R; op is "gen_prime" for dh_flag = 0 and "gen_prime_dh" otherwise. *)
(* pc = "mr" is inside mpi_miller_rabin on X, pc = "mr_y" on Y.            *)

GenMaxBits == 6

\* below the range, small sizes, above the range
GenBits == (2..GenMaxBits) \cup {POLARSSL_MPI_MAX_BITS + 1}

InitGen ==
    /\ nops = 0
    /\ pc = "call" /\ op \in {"gen_prime", "gen_prime_dh"}
    /\ udbl \in BOOLEAN
    /\ b \in GenBits
    /\ X \in {mpi_init, MkMpi(-200, 0)}
    /\ A = mpi_init /\ B = mpi_init /\ E = mpi_init /\ N = mpi_init
    /\ R = mpi_init /\ al = Distinct
    /\ G = mpi_init /\ r = 0 /\ ret = 0 /\ loc = NoLoc /\ path = NoPath

GenCall ==
    /\ pc = "call" /\ op \in {"gen_prime", "gen_prime_dh"}
    /\ \E bytes \in Rng(IF b <= POLARSSL_MPI_MAX_BITS
                         THEN BITS_TO_LIMBS(b) * ciL ELSE 0) :
          LET st == gen_start(X, b, bytes)
              dh == gen_dh_start(st.X)
          IN  IF ~st.go
              THEN pc' = "done" /\ ret' = st.ret /\ X' = st.X /\ R' = R
              ELSE /\ pc' = "gen_loop" /\ ret' = ret
                   /\ X' = IF op = "gen_prime" THEN st.X ELSE dh.X
                   /\ R' = IF op = "gen_prime" THEN R ELSE dh.Y
    /\ UNCHANGED << op, udbl, al, A, B, E, N, b, G, r, loc, path, nops >>

\* while( ( ret = mpi_is_prime( X ) ) != 0 ): the call of mpi_is_prime up to
\* mpi_miller_rabin, and what the loop does with a status
GenTest ==
    /\ pc = "gen_loop" /\ op = "gen_prime"
    /\ LET st == is_prime_start(X)
       IN  IF st.go
           THEN /\ pc' = "mr" /\ loc' = mr_start([X EXCEPT !.s = 1])
                /\ X' = X /\ ret' = ret
           ELSE IF st.ret = POLARSSL_ERR_MPI_NOT_ACCEPTABLE
           THEN /\ pc' = pc /\ loc' = loc /\ ret' = st.ret
                /\ X' = mpi_add_int(X, X, 2, TRUE).X
           ELSE pc' = "done" /\ loc' = loc /\ ret' = st.ret /\ X' = X
    /\ UNCHANGED << op, udbl, al, A, B, E, N, b, R, G, r, path, nops >>

\* one round of mpi_miller_rabin inside mpi_is_prime( X )
GenRound ==
    /\ pc = "mr" /\ op = "gen_prime" /\ loc.i < loc.n
    /\ \E bytes \in Rng(Len(X.p) * ciL) :
          LET rd == mr_round([X EXCEPT !.s = 1], loc, bytes, udbl)
          IN  IF rd.ret = 0
              THEN pc' = pc /\ ret' = ret /\ loc' = rd.l /\ X' = X
              ELSE IF rd.ret = POLARSSL_ERR_MPI_NOT_ACCEPTABLE
              THEN /\ pc' = "gen_loop" /\ ret' = rd.ret /\ loc' = NoLoc
                   /\ X' = mpi_add_int(X, X, 2, TRUE).X
              ELSE pc' = "done" /\ ret' = rd.ret /\ loc' = NoLoc /\ X' = X
    /\ UNCHANGED << op, udbl, al, A, B, E, N, b, R, G, r, path, nops >>

\* mpi_miller_rabin returned 0: mpi_is_prime returns 0 and the loop ends
GenAccept ==
    /\ pc = "mr" /\ op = "gen_prime" /\ loc.i = loc.n
    /\ pc' = "done" /\ ret' = 0 /\ loc' = NoLoc
    /\ UNCHANGED << op, udbl, al, A, B, E, N, b, X, R, G, r, path, nops >>

\* while( 1 ) of the dh_flag branch: the two small-factor checks
GenDhTest ==
    /\ pc = "gen_loop" /\ op = "gen_prime_dh"
    /\ LET c == gen_dh_small(X, R)
       IN  IF c = 0
           THEN /\ pc' = "mr" /\ loc' = mr_start(X)
                /\ X' = X /\ R' = R /\ ret' = c
           ELSE IF c = POLARSSL_ERR_MPI_NOT_ACCEPTABLE
           THEN /\ pc' = pc /\ loc' = loc /\ ret' = c
                /\ X' = mpi_add_int(X, X, 12, TRUE).X
                /\ R' = mpi_add_int(R, R, 6, TRUE).X
           ELSE pc' = "done" /\ loc' = loc /\ ret' = c /\ X' = X /\ R' = R
    /\ UNCHANGED << op, udbl, al, A, B, E, N, b, G, r, path, nops >>

\* one round of mpi_miller_rabin on X (pc = "mr") or on Y (pc = "mr_y")
GenDhRound ==
    /\ pc \in {"mr", "mr_y"} /\ op = "gen_prime_dh" /\ loc.i < loc.n
    /\ \E bytes \in Rng(Len((IF pc = "mr" THEN X ELSE R).p) * ciL) :
          LET rd == mr_round(IF pc = "mr" THEN X ELSE R, loc, bytes, udbl)
          IN  IF rd.ret = 0
              THEN /\ pc' = pc /\ ret' = ret /\ loc' = rd.l
                   /\ X' = X /\ R' = R
              ELSE IF rd.ret = POLARSSL_ERR_MPI_NOT_ACCEPTABLE
              THEN /\ pc' = "gen_loop" /\ ret' = rd.ret /\ loc' = NoLoc
                   /\ X' = mpi_add_int(X, X, 12, TRUE).X
                   /\ R' = mpi_add_int(R, R, 6, TRUE).X
              ELSE /\ pc' = "done" /\ ret' = rd.ret /\ loc' = NoLoc
                   /\ X' = X /\ R' = R
    /\ UNCHANGED << op, udbl, al, A, B, E, N, b, G, r, path, nops >>

\* mpi_miller_rabin returned 0: on X, the test of Y follows; on Y, break
GenDhAccept ==
    /\ pc \in {"mr", "mr_y"} /\ op = "gen_prime_dh" /\ loc.i = loc.n
    /\ IF pc = "mr"
       THEN pc' = "mr_y" /\ loc' = mr_start(R) /\ ret' = ret
       ELSE pc' = "done" /\ loc' = NoLoc /\ ret' = 0
    /\ UNCHANGED << op, udbl, al, A, B, E, N, b, X, R, G, r, path, nops >>

NextGen ==
    \/ GenCall \/ GenTest \/ GenRound \/ GenAccept
    \/ GenDhTest \/ GenDhRound \/ GenDhAccept

SpecGen == InitGen /\ [][NextGen]_vars

\* C14: for every nbits in [3, MAX_BITS] and every RNG output, when
\* mpi_gen_prime with dh_flag = 0 returns 0 the result X has exactly nbits
\* bits and is odd (it was accepted by mpi_is_prime, the exit of the loop);
\* nbits outside [3, MAX_BITS] gives BadInput.
C14_GenPrime ==
    (pc = "done" /\ op = "gen_prime") =>
        IF b < 3 \/ b > POLARSSL_MPI_MAX_BITS
        THEN ret = POLARSSL_ERR_MPI_BAD_INPUT_DATA
        ELSE ret = 0 => (mpi_msb(X) = b /\ Value(X) % 2 = 1)

\* C15: with dh_flag set, for every nbits >= 3, mpi_gen_prime returns 0 or
\* a negative error code, never a positive status; across the retries
\* Y = (X - 1) / 2, X = 3 mod 4 and X = 2 mod 3.
C15_GenSafe ==
    /\ (pc = "done" /\ op = "gen_prime_dh" /\ b >= 3) => ret <= 0
    /\ (pc \in {"gen_loop", "mr", "mr_y"} /\ op = "gen_prime_dh") =>
           /\ 2 * Value(R) = Value(X) - 1
           /\ Value(X) % 4 = 3
           /\ Value(X) % 3 = 2

----------------------------------------------------------------------------
(* The temporaries of a call.  Each function that owns local MPIs is       *)
(* written as the list of its exits and of its MPI_CHK calls, each with    *)
(* the locals the call may allocate, and the set its cleanup frees.  A     *)
(* call under MPI_CHK may fail (memory_alloc or f_rng): the macro then     *)
(* jumps to cleanup, the local being allocated or not.  A callee is        *)
(* responsible for its own locals.                                         *)

\* MPI_CHK( f ): if( ( ret = f ) != 0 ) goto cleanup; f writes the locals t
Chk(t) == [k |-> "chk", t |-> t, c |-> 0]
\* an MPI_CHK under an if or inside a loop: it may not be executed
ChkIf(t) == [k |-> "chk?", t |-> t, c |-> 0]
\* if( ... ) { ret = c; goto cleanup; }
GotoIf(c) == [k |-> "goto", t |-> {}, c |-> c]
\* if( ... ) return( c ): an exit that does not pass cleanup
RetIf(c) == [k |-> "ret", t |-> {}, c |-> c]
\* an MPI_CHK executed when _RR == NULL || _RR->p == NULL
Chk1st(t) == [k |-> "chk1", t |-> t, c |-> 0]
\* if( _RR != NULL ) __movsb( _RR, &RR, sizeof( mpi_t ) )
Give == [k |-> "give", t |-> {"RR"}, c |-> 0]

tmp_read_string ==
    [steps |-> << RetIf(POLARSSL_ERR_MPI_BAD_INPUT_DATA),
                  ChkIf({}), ChkIf({}), ChkIf({}),
                  ChkIf({}), ChkIf({}), ChkIf({"T"}), ChkIf({}), ChkIf({}) >>,
     frees |-> {"T"}]

tmp_write_string ==
    [steps |-> << RetIf(POLARSSL_ERR_MPI_BAD_INPUT_DATA),
                  RetIf(POLARSSL_ERR_MPI_BUFFER_TOO_SMALL),
                  ChkIf({"T"}), ChkIf({"T"}) >>,
     frees |-> {"T"}]

tmp_sub_abs ==
    [steps |-> << RetIf(POLARSSL_ERR_MPI_NEGATIVE_VALUE),
                  ChkIf({"TB"}), ChkIf({}) >>,
     frees |-> {"TB"}]

tmp_mul_mpi ==
    [steps |-> << ChkIf({"TA"}), ChkIf({"TB"}), Chk({}), Chk({}) >>,
     frees |-> {"TB", "TA"}]

tmp_div_mpi ==
    [steps |-> << RetIf(POLARSSL_ERR_MPI_DIVISION_BY_ZERO),
                  ChkIf({}), ChkIf({}), RetIf(0),
                  Chk({"X"}), Chk({"Y"}),
                  Chk({"Z"}), Chk({"Z"}), Chk({"T1"}), Chk({"T2"}),
                  ChkIf({"X"}), ChkIf({"Y"}),
                  Chk({"Y"}), ChkIf({"X"}), Chk({"Y"}),
                  ChkIf({"T1"}), ChkIf({"T1"}), ChkIf({"T2"}),
                  ChkIf({"T1"}), ChkIf({"T1"}), ChkIf({"X"}),
                  ChkIf({"T1"}), ChkIf({"T1"}), ChkIf({"X"}),
                  ChkIf({}), ChkIf({"X"}), ChkIf({}) >>,
     frees |-> {"X", "Y", "Z", "T1", "T2"}]

\* W1 is W[1], Wj is W[1 << (wsize - 1)], Wi the entries above it
tmp_exp_mod ==
    [steps |-> << RetIf(POLARSSL_ERR_MPI_BAD_INPUT_DATA),
                  RetIf(POLARSSL_ERR_MPI_BAD_INPUT_DATA),
                  Chk({}), Chk({"W1"}), Chk({"T"}),
                  ChkIf({"Apos"}),
                  Chk1st({"RR"}), Chk1st({"RR"}), Chk1st({"RR"}), Give,
                  Chk({"W1"}), Chk({}),
                  ChkIf({"Wj"}), ChkIf({"Wj"}),
                  ChkIf({"Wi"}), ChkIf({"Wi"}),
                  ChkIf({}) >>,
     frees |-> {"Wj", "Wi", "W1", "T", "Apos"}]

exp_mod_frees_no_RR(cache) == tmp_exp_mod.frees

\* cleanup of mpi_exp_mod; cache is the caller's _RR: "none" when
\* _RR == NULL, "empty" when _RR->p == NULL, "full" otherwise
exp_mod_frees(cache) ==
    tmp_exp_mod.frees \cup (IF cache \in {"none", "empty"} THEN {"RR"} ELSE {})

tmp_gcd ==
    [steps |-> << Chk({"TA"}), Chk({"TB"}), Chk({"TA"}), Chk({"TB"}),
                  ChkIf({"TA"}), ChkIf({"TB"}),
                  ChkIf({"TA"}), ChkIf({"TA"}), ChkIf({"TB"}), ChkIf({"TB"}),
                  Chk({"TB"}), Chk({}) >>,
     frees |-> {"TG", "TA", "TB"}]

tmp_inv_mod ==
    [steps |-> << RetIf(POLARSSL_ERR_MPI_BAD_INPUT_DATA),
                  Chk({"G"}), GotoIf(POLARSSL_ERR_MPI_NOT_ACCEPTABLE),
                  Chk({"TA"}), Chk({"TU"}), Chk({"TB"}), Chk({"TV"}),
                  Chk({"U1"}), Chk({"U2"}), Chk({"V1"}), Chk({"V2"}),
                  ChkIf({"TU"}), ChkIf({"U1"}), ChkIf({"U2"}),
                  ChkIf({"U1"}), ChkIf({"U2"}),
                  ChkIf({"TV"}), ChkIf({"V1"}), ChkIf({"V2"}),
                  ChkIf({"V1"}), ChkIf({"V2"}),
                  ChkIf({"TU"}), ChkIf({"U1"}), ChkIf({"U2"}),
                  ChkIf({"TV"}), ChkIf({"V1"}), ChkIf({"V2"}),
                  ChkIf({"V1"}), ChkIf({"V1"}), Chk({}) >>,
     frees |-> {"TA", "TU", "U1", "U2", "G", "TB", "TV", "V1", "V2"}]

\* RR is the cache handed to mpi_exp_mod as _RR
tmp_miller_rabin ==
    [steps |-> << Chk({"W"}), Chk({"R"}), Chk({"R"}),
                  ChkIf({"A"}), ChkIf({"A"}), ChkIf({"A", "RR"}),
                  ChkIf({"T"}), ChkIf({"A"}),
                  GotoIf(POLARSSL_ERR_MPI_NOT_ACCEPTABLE) >>,
     frees |-> {"W", "R", "T", "A", "RR"}]

tmp_gen_prime ==
    [steps |-> << RetIf(POLARSSL_ERR_MPI_BAD_INPUT_DATA),
                  Chk({}), ChkIf({}), ChkIf({}),
                  GotoIf(0), ChkIf({}),
                  ChkIf({}), ChkIf({}), ChkIf({}),
                  ChkIf({"Y"}), ChkIf({"Y"}),
                  GotoIf(0),
                  ChkIf({}), ChkIf({"Y"}) >>,
     frees |-> {"Y"}]

TmpOps == {"read_string", "write_string", "sub_abs", "mul_mpi", "div_mpi",
           "exp_mod", "gcd", "inv_mod", "miller_rabin", "gen_prime"}

Tmp(o) ==
    CASE o = "read_string" -> tmp_read_string
      [] o = "write_string" -> tmp_write_string
      [] o = "sub_abs" -> tmp_sub_abs
      [] o = "mul_mpi" -> tmp_mul_mpi
      [] o = "div_mpi" -> tmp_div_mpi
      [] o = "exp_mod" -> tmp_exp_mod
      [] o = "gcd" -> tmp_gcd
      [] o = "inv_mod" -> tmp_inv_mod
      [] o = "miller_rabin" -> tmp_miller_rabin
      [] o = "gen_prime" -> tmp_gen_prime

TmpFrees(o, cache) ==
    IF o = "exp_mod" THEN exp_mod_frees(cache) ELSE Tmp(o).frees

\* live: the locals that hold a buffer; had: those that ever held one;
\* lost: cleanup has freed the buffer of the caller's cache
InitTmp ==
    /\ nops = 0
    /\ pc = "call" /\ op \in TmpOps
    /\ \E c \in (IF op = "exp_mod" THEN {"none", "empty", "full"}
                 ELSE {"none"}) :
          loc = [k |-> 1, live |-> {}, had |-> {}, cache |-> c,
                 lost |-> FALSE]
    /\ udbl = FALSE /\ al = Distinct
    /\ A = mpi_init /\ B = mpi_init /\ E = mpi_init /\ N = mpi_init
    /\ X = mpi_init /\ R = mpi_init /\ G = mpi_init
    /\ b = 0 /\ r = 0 /\ ret = 0 /\ path = NoPath

TmpStepAt == Tmp(op).steps[loc.k]

TmpRuns ==
    /\ pc \in {"call", "body"}
    /\ loc.k <= Len(Tmp(op).steps)

\* an exit before cleanup is taken
TmpReturn ==
    /\ TmpRuns /\ TmpStepAt.k = "ret"
    /\ pc' = "done" /\ ret' = TmpStepAt.c
    /\ UNCHANGED << op, udbl, al, A, B, E, N, b, X, R, G, r, loc, path,
                    nops >>

\* the step is passed: its condition is false, or its call returns 0
TmpStep ==
    /\ TmpRuns
    /\ LET st == TmpStepAt
           first == loc.cache \in {"none", "empty"}
       IN  \E S \in SUBSET st.t :
              /\ CASE st.k \in {"ret", "goto"} -> S = {}
                   [] st.k = "give" -> S = {}
                   [] st.k = "chk1" -> first \/ S = {}
                   [] OTHER -> TRUE
              /\ loc' = [loc EXCEPT
                           !.k = @ + 1,
                           !.live = @ \cup S,
                           !.had = @ \cup S,
                           !.cache = IF st.k = "give" /\ @ = "empty"
                                     THEN "full" ELSE @]
    /\ pc' = "body"
    /\ UNCHANGED << op, udbl, al, A, B, E, N, b, X, R, G, r, ret, path,
                    nops >>

\* the call under MPI_CHK fails, or the goto is taken
TmpFail ==
    /\ TmpRuns
    /\ LET st == TmpStepAt
       IN  /\ \/ st.k \in {"chk", "chk?", "goto"}
              \/ st.k = "chk1" /\ loc.cache \in {"none", "empty"}
           /\ \E S \in SUBSET st.t :
                 loc' = [loc EXCEPT !.live = @ \cup S, !.had = @ \cup S]
           /\ ret' = IF st.k = "goto" THEN st.c
                     ELSE POLARSSL_ERR_MPI_MALLOC_FAILED
    /\ pc' = "cleanup"
    /\ UNCHANGED << op, udbl, al, A, B, E, N, b, X, R, G, r, path, nops >>

\* the end of the body is reached
TmpEnd ==
    /\ pc \in {"call", "body"}
    /\ loc.k > Len(Tmp(op).steps)
    /\ pc' = "cleanup"
    /\ UNCHANGED << op, udbl, al, A, B, E, N, b, X, R, G, r, ret, loc, path,
                    nops >>

\* cleanup: the mpi_free calls, then return( ret )
TmpCleanup ==
    /\ pc = "cleanup"
    /\ LET F == TmpFrees(op, loc.cache)
       IN  loc' = [loc EXCEPT
                     !.live = @ \ F,
                     !.lost = loc.cache = "full" /\ "RR" \in F
                              /\ "RR" \notin loc.live]
    /\ pc' = "done"
    /\ UNCHANGED << op, udbl, al, A, B, E, N, b, X, R, G, r, ret, path,
                    nops >>

NextTmp == TmpReturn \/ TmpStep \/ TmpFail \/ TmpEnd \/ TmpCleanup

SpecTmp == InitTmp /\ [][NextTmp]_vars

\* C16: every temporary MPI an operation allocates is freed before the
\* operation returns, on success and on every error exit, whichever
\* allocation or RNG call fails; the only buffer that outlives mpi_exp_mod
\* is the RR handed to the caller's cache, which cleanup leaves alone.
C16_TemporariesFreed ==
    (pc = "done") =>
        /\ loc.live \subseteq
               (IF op = "exp_mod" /\ loc.cache = "full" THEN {"RR"} ELSE {})
        /\ ~loc.lost

\* mpi_exp_mod, first call with a cache: the pre-computation of RR fails
\* after RR has been allocated and before it is handed over
C16_Witness ==
    /\ pc = "done" /\ op = "exp_mod" /\ ret = POLARSSL_ERR_MPI_MALLOC_FAILED
    /\ loc.cache = "empty" /\ loc.k \in 7..9
    /\ "RR" \in loc.had /\ loc.live = {}

----------------------------------------------------------------------------
(* mpi_write_string( X, radix, s, &slen ): X is held in A, radix in b, the *)
(* *slen of the call (the size of the buffer s) in r; loc holds the        *)
(* characters stored, the *slen and the state of mpi_write_hlp             *)

StrDense == 16
StrMaxLen == 13

\* one and two limbs, around the lengths where a digit is added
StrVals == (0..StrDense)
           \cup {LimbBase - 1, LimbBase, (2 * LimbBase) - 1, 2 * LimbBase}

InitStr ==
    /\ nops = 0
    /\ pc = "call" /\ op = "write_string"
    /\ udbl \in BOOLEAN
    /\ \E pad \in 0..1, v \in Signed(StrVals) : A = MkMpi(v, pad)
    /\ b \in 2..16
    /\ r \in 0..StrMaxLen
    /\ B = mpi_init /\ E = mpi_init /\ N = mpi_init /\ al = Distinct
    /\ X = mpi_init /\ R = mpi_init /\ G = mpi_init
    /\ ret = 0 /\ path = NoPath
    /\ loc = [s |-> << >>, slen |-> r]

\* the call up to mpi_write_hlp; the radix 16 branch ends here
WriteString ==
    /\ pc = "call" /\ op = "write_string"
    /\ LET w == write_string_start(A, b, r)
           f == write_string_finish(w.s)
       IN  /\ ret' = w.ret
           /\ IF w.go
              THEN /\ pc' = "hlp"
                   /\ loc' = [s |-> w.s, slen |-> w.slen, T |-> w.T,
                              rs |-> << >>]
              ELSE /\ pc' = "done"
                   /\ loc' = IF w.ret = 0
                             THEN [s |-> f.s, slen |-> f.slen]
                             ELSE [s |-> w.s, slen |-> w.slen]
    /\ UNCHANGED << op, udbl, al, A, B, E, N, b, X, R, G, r, path, nops >>

\* a call of mpi_write_hlp: its digit r is kept in rs, the last call first,
\* and the call below is made when T is not zero
WriteHlpDivide ==
    /\ pc = "hlp"
    /\ LET h == write_hlp_divide(loc.T, b, udbl)
       IN  /\ ret' = h.ret
           /\ loc' = [loc EXCEPT
                        !.T = h.X,
                        !.rs = [k \in 1..(Len(@) + 1) |->
                                  IF k = 1 THEN h.r ELSE @[k - 1]]]
           /\ pc' = IF h.ret # 0 THEN "done"
                    ELSE IF mpi_cmp_int(h.X, 0) # 0 THEN "hlp"
                    ELSE "digits"
    /\ UNCHANGED << op, udbl, al, A, B, E, N, b, X, R, G, r, path, nops >>

\* the innermost call of mpi_write_hlp that has not returned stores its
\* digit and returns
WriteHlpDigit ==
    /\ pc = "digits" /\ Len(loc.rs) > 0
    /\ loc' = [loc EXCEPT
                 !.s = write_hlp_digit(@, loc.rs[1]),
                 !.rs = [k \in 1..(Len(@) - 1) |-> @[k + 1]]]
    /\ UNCHANGED << pc, op, udbl, al, A, B, E, N, b, X, R, G, r, ret, path,
                    nops >>

\* back in mpi_write_string: the NUL and *slen
WriteFinish ==
    /\ pc = "digits" /\ Len(loc.rs) = 0
    /\ LET f == write_string_finish(loc.s)
       IN  loc' = [s |-> f.s, slen |-> f.slen]
    /\ pc' = "done"
    /\ UNCHANGED << op, udbl, al, A, B, E, N, b, X, R, G, r, ret, path,
                    nops >>

NextStr == WriteString \/ WriteHlpDivide \/ WriteHlpDigit \/ WriteFinish

SpecStr == InitStr /\ [][NextStr]_vars

\* C17: for every X of either sign and every radix in [2, 16], when
\* mpi_write_string returns 0 the characters it stored (sign, digits and
\* NUL) are at most the *slen passed in and *slen is their number; when
\* *slen is too small it returns BufferTooSmall, stores nothing and sets
\* *slen to a larger length.
C17_WriteString ==
    (pc = "done" /\ op = "write_string") =>
        /\ ret \in {0, POLARSSL_ERR_MPI_BUFFER_TOO_SMALL}
        /\ ret = 0 => Len(loc.s) <= r /\ loc.slen = Len(loc.s)
        /\ ret = POLARSSL_ERR_MPI_BUFFER_TOO_SMALL =>
               /\ loc.s = << >>
               /\ loc.slen > r

----------------------------------------------------------------------------
(* mpi_write_binary( A, buf, buflen ) followed by mpi_read_binary( X, buf, *)
(* buflen ), and mpi_read_binary( X, buf, buflen ) followed by             *)
(* mpi_write_binary( X, out, buflen ); buflen is b, the buffers are in loc *)

BinDense == 3
BinMaxLen == 3

BinVals == (0..BinDense)
           \cup {LimbBase - 1, LimbBase, LimbBase + 1, (LimbBase ^ 2) - 1}

BinBytes == {0, 1, LimbBase - 1}

\* a buffer of n bytes that holds what an earlier use left
StaleBuf(n) == [k \in 1..n |-> 170]

\* the number a buffer holds, big endian
RECURSIVE BufValue(_, _)
BufValue(buf, n) ==
    IF n = 0 THEN 0 ELSE buf[n] + (256 * BufValue(buf, n - 1))

SameBytes(u, v) == Len(u) = Len(v) /\ \A k \in 1..Len(u) : u[k] = v[k]

InitBin ==
    /\ nops = 0
    /\ pc = "call"
    /\ udbl = FALSE /\ al = Distinct
    /\ B = mpi_init /\ E = mpi_init /\ N = mpi_init
    /\ R = mpi_init /\ G = mpi_init
    /\ r = 0 /\ ret = 0 /\ path = NoPath
    /\ X \in {mpi_init, Stale}
    /\ b \in 0..BinMaxLen
    /\ \/ /\ op = "write_read"
          /\ \E pad \in 0..1, v \in BinVals : A = MkMpi(v, pad)
          /\ loc = [buf |-> StaleBuf(b), out |-> StaleBuf(b)]
       \/ /\ op = "read_write"
          /\ A = mpi_init
          /\ \E s \in [1..b -> BinBytes] :
                loc = [buf |-> s, out |-> StaleBuf(b)]

BinWrite ==
    /\ pc = "call" /\ op = "write_read"
    /\ LET w == mpi_write_binary(A, loc.buf)
       IN  /\ ret' = w.ret
           /\ loc' = [loc EXCEPT !.buf = w.buf]
           /\ pc' = IF w.ret = 0 THEN "written" ELSE "done"
    /\ UNCHANGED << op, udbl, al, A, B, E, N, b, X, R, G, r, path, nops >>

BinReadBack ==
    /\ pc = "written"
    /\ LET rd == mpi_read_binary(X, loc.buf)
       IN  ret' = rd.ret /\ X' = rd.X
    /\ pc' = "done"
    /\ UNCHANGED << op, udbl, al, A, B, E, N, b, R, G, r, loc, path, nops >>

BinRead ==
    /\ pc = "call" /\ op = "read_write"
    /\ LET rd == mpi_read_binary(X, loc.buf)
       IN  ret' = rd.ret /\ X' = rd.X
    /\ pc' = "read"
    /\ UNCHANGED << op, udbl, al, A, B, E, N, b, R, G, r, loc, path, nops >>

BinWriteBack ==
    /\ pc = "read"
    /\ LET w == mpi_write_binary(X, loc.out)
       IN  /\ ret' = w.ret
           /\ loc' = [loc EXCEPT !.out = w.buf]
    /\ pc' = "done"
    /\ UNCHANGED << op, udbl, al, A, B, E, N, b, X, R, G, r, path, nops >>

NextBin == BinWrite \/ BinReadBack \/ BinRead \/ BinWriteBack

SpecBin == InitBin /\ [][NextBin]_vars

\* C18: for a non-negative X and buflen >= mpi_size( X ), mpi_write_binary
\* fills the buffer with the big-endian bytes of X behind zeros, and
\* mpi_read_binary of that buffer gives an MPI equal to X; with a smaller
\* buflen it returns BufferTooSmall and leaves the buffer as it was; for
\* every byte string, mpi_read_binary then mpi_write_binary into as many
\* bytes gives the byte string back.
C18_BinaryRoundTrip ==
    /\ (op = "write_read" /\ pc \in {"written", "done"}) =>
           IF b >= mpi_size(A)
           THEN /\ ret = 0
                /\ Len(loc.buf) = b
                /\ \A k \in 1..b : loc.buf[k] \in 0..255
                /\ BufValue(loc.buf, b) = Value(A)
                /\ pc = "done" => mpi_cmp_mpi(X, A) = 0 /\ Value(X) = Value(A)
           ELSE /\ pc = "done" /\ ret = POLARSSL_ERR_MPI_BUFFER_TOO_SMALL
                /\ SameBytes(loc.buf, StaleBuf(b))
    /\ (op = "read_write" /\ pc \in {"read", "done"}) =>
           /\ ret = 0
           /\ Value(X) = BufValue(loc.buf, b)
           /\ pc = "done" => SameBytes(loc.out, loc.buf)

\* a two-byte value written behind a zero byte into a used buffer and read
\* back into an object that held a longer negative number
C18_Witness ==
    /\ op = "write_read" /\ pc = "done" /\ ret = 0
    /\ Value(A) = LimbBase + 1 /\ b = 3 /\ Len(X.p) = 4
    /\ X.s = 1 /\ Value(X) = LimbBase + 1
    /\ loc.buf[1] = 0 /\ loc.buf[2] = 1 /\ loc.buf[3] = 1

----------------------------------------------------------------------------
(* mpi_safe_cond_assign( X, Y, assign ): A is X as it is at the call, B is *)
(* Y, b is assign; loc holds the limb accesses                             *)

CondDense == 2
CondPad == 2

CondVals == (0..CondDense) \cup {LimbBase - 1, LimbBase}

CondFlags == {0, 1, 2, LimbBase - 1}

\* objects of every capacity from 0 (never assigned) upwards
CondMpis ==
    {mpi_init}
    \cup {MkMpi(v, pad) : v \in Signed(CondVals), pad \in 0..CondPad}

InitCond ==
    /\ nops = 0
    /\ pc = "call" /\ op = "safe_cond_assign"
    /\ udbl = FALSE /\ al = Distinct
    /\ A \in CondMpis /\ B \in CondMpis /\ b \in CondFlags
    /\ X = A
    /\ E = mpi_init /\ N = mpi_init /\ R = mpi_init /\ G = mpi_init
    /\ r = 0 /\ ret = 0 /\ path = NoPath
    /\ loc = [t |-> << >>]

CondAssign ==
    /\ pc = "call" /\ op = "safe_cond_assign"
    /\ LET c == mpi_safe_cond_assign(X, B, b)
       IN  ret' = c.ret /\ X' = c.X /\ loc' = [t |-> c.t]
    /\ pc' = "done"
    /\ UNCHANGED << op, udbl, al, A, B, E, N, b, R, G, r, path, nops >>

NextCond == CondAssign

SpecCond == InitCond /\ [][NextCond]_vars

\* the same accesses in the same order
SameTrace(t, u) == Len(t) = Len(u) /\ \A k \in 1..Len(t) : t[k] = u[k]

\* C19: for X and Y of any capacities, mpi_safe_cond_assign with flag 0
\* leaves the value and sign of X as they were, with a nonzero flag it
\* leaves X equal to Y in value and sign with the limbs above Y's capacity
\* zero; no limb of Y is stored to; the limb accesses, in order, are the
\* ones the call makes with the other choice of the flag.
C19_CondAssign ==
    (pc = "done" /\ op = "safe_cond_assign") =>
        /\ ret = 0
        /\ b = 0 => Value(X) = Value(A) /\ X.s = A.s
        /\ b # 0 =>
               /\ Value(X) = Value(B) /\ X.s = B.s
               /\ \A k \in 1..Len(X.p) : k > Len(B.p) => X.p[k] = 0
        /\ \A k \in 1..Len(loc.t) : loc.t[k].w => loc.t[k].o = "X"
        /\ SameTrace(loc.t,
                     mpi_safe_cond_assign(A, B, IF b = 0 THEN 1 ELSE 0).t)

\* a positive three-limb X takes the value of a negative one-limb Y
C19_Witness ==
    /\ pc = "done" /\ op = "safe_cond_assign" /\ b = LimbBase - 1
    /\ Len(A.p) = 3 /\ Value(A) = LimbBase /\ Len(B.p) = 1 /\ Value(B) = -2
    /\ Len(X.p) = 3 /\ Value(X) = -2 /\ Len(loc.t) = 7

----------------------------------------------------------------------------
(* mpi_shift_l( X, count ) followed by mpi_shift_r( X, count ), and        *)
(* mpi_shift_r( X, count ) alone; A is X as it is at the call, b is count  *)

ShiftDense == 2
ShiftMaxCount == 26

\* the largest number of bits a result may have, for the arithmetic of the
\* check to stay exact
ShiftMaxBits == 30

ShiftVals == (0..ShiftDense)
             \cup {(LimbBase \div 2) - 1, LimbBase \div 2,
                   LimbBase - 1, LimbBase, LimbBase + 1,
                   ((LimbBase ^ 2) \div 2) - 1, (LimbBase ^ 2) \div 2,
                   (LimbBase ^ 2) - 1}

InitShift ==
    /\ nops = 0
    /\ pc = "call" /\ op \in {"shift_l", "shift_r"}
    /\ udbl = FALSE /\ al = Distinct
    /\ \E pad \in 0..1, v \in Signed(ShiftVals) : A = MkMpi(v, pad)
    /\ b \in 0..ShiftMaxCount
    /\ op = "shift_l" => mpi_msb(A) + b <= ShiftMaxBits
    /\ X = A
    /\ B = mpi_init /\ E = mpi_init /\ N = mpi_init
    /\ R = mpi_init /\ G = mpi_init
    /\ r = 0 /\ ret = 0 /\ loc = NoLoc /\ path = NoPath

ShiftL ==
    /\ pc = "call" /\ op = "shift_l"
    /\ X' = mpi_shift_l(X, b)
    /\ pc' = "shifted"
    /\ UNCHANGED << op, udbl, al, A, B, E, N, b, R, G, r, ret, loc, path,
                    nops >>

ShiftBack ==
    /\ pc = "shifted"
    /\ X' = mpi_shift_r(X, b)
    /\ pc' = "done"
    /\ UNCHANGED << op, udbl, al, A, B, E, N, b, R, G, r, ret, loc, path,
                    nops >>

ShiftR ==
    /\ pc = "call" /\ op = "shift_r"
    /\ X' = mpi_shift_r(X, b)
    /\ pc' = "done"
    /\ UNCHANGED << op, udbl, al, A, B, E, N, b, R, G, r, ret, loc, path,
                    nops >>

NextShift == ShiftL \/ ShiftBack \/ ShiftR

SpecShift == InitShift /\ [][NextShift]_vars

\* C20: for every X and every count k (0, the limb size, its multiples,
\* other counts, counts from the capacity of X in bits upwards),
\* mpi_shift_l leaves |X| * 2^k, mpi_shift_r leaves floor( |X| / 2^k ),
\* which is zero when k is at least the capacity in bits, and mpi_shift_r
\* after mpi_shift_l by the same count gives X back.
C20_Shift ==
    /\ (op = "shift_l" /\ pc = "shifted") =>
           Mag(X.p) = Mag(A.p) * (2 ^ b) /\ X.s = A.s
    /\ (op = "shift_l" /\ pc = "done") =>
           Value(X) = Value(A) /\ mpi_cmp_mpi(X, A) = 0
    /\ (op = "shift_r" /\ pc = "done") =>
           /\ Mag(X.p) = Mag(A.p) \div (2 ^ b)
           /\ b >= Len(A.p) * biL => Mag(X.p) = 0

\* -257 shifted by a limb and a half, which needs one more limb, and back
C20_Witness ==
    /\ op = "shift_l" /\ pc = "done" /\ b = biL + biH
    /\ Value(A) = -(LimbBase + 1) /\ Len(A.p) = 2
    /\ Value(X) = -(LimbBase + 1) /\ Len(X.p) = 3

----------------------------------------------------------------------------
(* mpi_msb( X ) and the functions that start by calling it, on an X that   *)
(* may be initialized-empty (n = 0, p = NULL); X is held in A.  For        *)
(* mpi_msb and mpi_size the result is r; for mpi_shift_l b is count and X  *)
(* the object shifted; for mpi_write_binary b is buflen and loc holds the  *)
(* buffer; for mpi_write_string b is the radix, r the *slen of the call    *)
(* and loc the characters.  path tells whether a limb was read outside     *)
(* the limb buffer.                                                        *)

MsbDense == 4

MsbVals == (0..MsbDense)
           \cup {(LimbBase \div 2) - 1, LimbBase \div 2, LimbBase - 1,
                 LimbBase, (LimbBase ^ 2) - 1}

\* the objects of value zero: never assigned (or freed), and assigned zero
\* with one and two limbs
MsbZeros == {mpi_init, mpi_free(Stale), MkMpi(0, 0), MkMpi(0, 1)}

\* what a call may return after a read outside the limb buffer
MsbAny == {0, 1, biL}

\* the number of bits of a natural
RECURSIVE BitLen(_)
BitLen(n) == IF n = 0 THEN 0 ELSE 1 + BitLen(n \div 2)

InitMsb ==
    /\ nops = 0
    /\ pc = "call"
    /\ udbl = FALSE /\ al = Distinct
    /\ B = mpi_init /\ E = mpi_init /\ N = mpi_init
    /\ R = mpi_init /\ G = mpi_init
    /\ ret = 0 /\ path = [oob |-> FALSE]
    /\ \/ /\ op \in {"msb", "size"}
          /\ \/ A = mpi_init
             \/ \E pad \in 0..1, v \in Signed(MsbVals) : A = MkMpi(v, pad)
          /\ b = 0 /\ r = 0 /\ loc = NoLoc
       \/ /\ op = "shift_l"
          /\ A \in MsbZeros /\ b \in {0, biH, biL, biL + biH}
          /\ r = 0 /\ loc = NoLoc
       \/ /\ op = "write_binary"
          /\ A \in MsbZeros /\ b \in 0..2
          /\ r = 0 /\ loc = [buf |-> StaleBuf(b)]
       \/ /\ op = "write_string"
          /\ A \in MsbZeros /\ b \in {2, 10, 16}
          /\ r \in 2..4 /\ loc = [s |-> << >>, slen |-> r]
    /\ X = A

\* mpi_msb on n = 0: i = X->n - 1 is the largest size_t and X->p[i] is
\* read with X->p == NULL.  The call stops there or goes on with what it
\* read; the caller of mpi_msb then works with that.
MsbOutside ==
    /\ pc = "call" /\ Len(A.p) = 0
    /\ op \in {"msb", "size", "shift_l", "write_binary", "write_string"}
    /\ path' = [oob |-> TRUE]
    /\ pc' \in {"fault", "done"}
    /\ IF op \in {"msb", "size"}
       THEN r' \in MsbAny /\ ret' = ret
       ELSE r' = r
            /\ ret' \in {0, POLARSSL_ERR_MPI_BUFFER_TOO_SMALL}
    /\ UNCHANGED << op, udbl, al, A, B, E, N, b, X, R, G, loc, nops >>

MsbCall ==
    /\ pc = "call" /\ op = "msb" /\ Len(A.p) > 0
    /\ r' = mpi_msb(A)
    /\ pc' = "done"
    /\ UNCHANGED << op, udbl, al, A, B, E, N, b, X, R, G, ret, loc, path,
                    nops >>

SizeCall ==
    /\ pc = "call" /\ op = "size" /\ Len(A.p) > 0
    /\ r' = mpi_size(A)
    /\ pc' = "done"
    /\ UNCHANGED << op, udbl, al, A, B, E, N, b, X, R, G, ret, loc, path,
                    nops >>

MsbShiftL ==
    /\ pc = "call" /\ op = "shift_l" /\ Len(A.p) > 0
    /\ X' = mpi_shift_l(X, b)
    /\ pc' = "done"
    /\ UNCHANGED << op, udbl, al, A, B, E, N, b, R, G, r, ret, loc, path,
                    nops >>

MsbWriteBinary ==
    /\ pc = "call" /\ op = "write_binary" /\ Len(A.p) > 0
    /\ LET w == mpi_write_binary(A, loc.buf)
       IN  ret' = w.ret /\ loc' = [buf |-> w.buf]
    /\ pc' = "done"
    /\ UNCHANGED << op, udbl, al, A, B, E, N, b, X, R, G, r, path, nops >>

MsbWriteString ==
    /\ Len(A.p) > 0
    /\ WriteString \/ WriteHlpDivide \/ WriteHlpDigit \/ WriteFinish

NextMsb ==
    \/ MsbOutside \/ MsbCall \/ SizeCall \/ MsbShiftL \/ MsbWriteBinary
    \/ MsbWriteString

SpecMsb == InitMsb /\ [][NextMsb]_vars

\* C21: mpi_msb returns the number of bits of |X|, 0 for every X of value
\* zero, an initialized-empty or freed X included, and reads no limb
\* outside the limb buffer; mpi_size, mpi_shift_l, mpi_write_binary and
\* mpi_write_string take an initialized-empty X as zero.
C21_Msb ==
    (pc \in {"done", "fault"}) =>
        /\ pc = "done" /\ ~path.oob
        /\ op = "msb" => r = BitLen(Mag(A.p))
        /\ op = "size" => r = (BitLen(Mag(A.p)) + 7) \div 8
        /\ op = "shift_l" => Value(X) = 0
        /\ op = "write_binary" =>
               ret = 0 /\ \A k \in 1..b : loc.buf[k] = 0
        /\ op = "write_string" =>
               IF r < 3 THEN ret = POLARSSL_ERR_MPI_BUFFER_TOO_SMALL
               ELSE /\ ret = 0
                    /\ Len(loc.s) >= 2
                    /\ \A k \in 1..(Len(loc.s) - 1) : loc.s[k] = 48
                    /\ loc.s[Len(loc.s)] = 0

----------------------------------------------------------------------------
(* mpi_div_mpi( Q, R, A, B ) with an output pointer equal to an input      *)
(* pointer; al tells which.  A and B keep the operands as they are at the  *)
(* call; X and R are the objects Q and R point to after the call.          *)

AliasDense == 4

AliasVals == (0..AliasDense) \cup {LimbBase - 1, LimbBase + 1, 1232}

\* four distinct objects, or one output pointer equal to one input pointer
AliasCases ==
    {NoAlias,
     [NoAlias EXCEPT !.QisA = TRUE], [NoAlias EXCEPT !.QisB = TRUE],
     [NoAlias EXCEPT !.RisA = TRUE], [NoAlias EXCEPT !.RisB = TRUE]}

InitAlias ==
    /\ nops = 0
    /\ pc = "call" /\ op = "div_mpi"
    /\ udbl \in BOOLEAN
    /\ A \in Mpis(Signed(AliasVals))
    /\ B \in Mpis(Signed(AliasVals))
    /\ al \in AliasCases
    /\ X = (IF al.QisA THEN A ELSE IF al.QisB THEN B ELSE mpi_init)
    /\ R = (IF al.RisA THEN A ELSE IF al.RisB THEN B ELSE mpi_init)
    /\ E = mpi_init /\ N = mpi_init /\ b = 0
    /\ G = mpi_init /\ r = 0 /\ ret = 0 /\ loc = NoLoc /\ path = NoPath

DivAliased ==
    /\ pc = "call" /\ op = "div_mpi"
    /\ LET d == mpi_div_mpi(X, R, A, B, TRUE, TRUE, al, udbl)
       IN  X' = d.Q /\ R' = d.R /\ ret' = d.ret /\ path' = d.path
    /\ pc' = "done"
    /\ UNCHANGED << op, udbl, al, A, B, E, N, b, G, r, loc, nops >>

NextAlias == DivAliased

SpecAlias == InitAlias /\ [][NextAlias]_vars

\* what the call gives on four distinct objects
DivDistinct == mpi_div_mpi(mpi_init, mpi_init, A, B, TRUE, TRUE, NoAlias, udbl)

\* C22: mpi_div_mpi gives the same quotient and remainder when an output
\* is the same object as an input as on four distinct objects: in the fast
\* path |A| < |B|, Q = 0 and R = the A of the call; in the general path
\* Q.s = A.s * B.s and R.s = A.s with the signs of the call.
C22_DivAliased ==
    (pc = "done" /\ op = "div_mpi") =>
        /\ ret = DivDistinct.ret
        /\ ret = 0 =>
               /\ Value(X) = Value(DivDistinct.Q) /\ X.s = DivDistinct.Q.s
               /\ Value(R) = Value(DivDistinct.R) /\ R.s = DivDistinct.R.s
               /\ path.fast => Value(X) = 0 /\ Value(R) = Value(A)
               /\ ~path.fast =>
                      /\ X.s = A.s * B.s
                      /\ Value(R) # 0 => R.s = A.s

====
